---- MODULE Spec2Model ----
(***************************************************************************)
(* Model of the scrolling-text display engine of the POI quest app                *)
(* (src/src/index.ts): wrapText, displayScrollingText, the per-user        *)
(* scrollingTextActive flag and the producers that share the display       *)
(* (voice commands, distance card, proximity notification, TTS, session    *)
(* start and cleanup).                                                     *)
(*                                                                         *)
(* One user with one session is modelled.  wrapText works on sequences of  *)
(* one-character strings; its lines are kept as strings.  A step of the    *)
(* model is one turn of the event loop: the code that runs from an event   *)
(* (transcription, location update, timer, settled promise) to the next    *)
(* await.  Time is kept                                                    *)
(* relative: a timer holds the milliseconds left until it is due, a stored *)
(* timestamp holds its age (Date.now() minus the stored value), and Tick   *)
(* lets TickMs milliseconds pass.                                          *)
(***************************************************************************)
EXTENDS Integers, Sequences, FiniteSets, TLC

VARIABLES
    session,              \* the session's stage: "new", "init", "open", "closed"
    userSessionsMap,      \* the user's entry: {TheSession}, or {}
    scrollingTextActive,  \* the user's entry: {TRUE}, {FALSE} or {}
    userLocationsMap,     \* the user's entry: TRUE (a location is stored) or FALSE
    lastDistanceNotificationMap, \* the user's entry: {age of the timestamp}, or {}
    invocations,          \* displayScrollingText calls made so far
    display,              \* the last call session.layouts accepted: what is shown
    sinkFailures,         \* how many layout calls have thrown
    commands,             \* handleQuestCommands calls made so far
    proximity,            \* checkQuestProximity calls made so far
    activeQuests,         \* the statuses of the user's rows in active_quests, in
                          \* the order the rows were inserted
    user,                 \* the user's row in users
    lastTTSTimeMap,       \* the user's entry: {age of the timestamp}, or {}
    activeTTSMap,         \* the user's entry: {TRUE}, {FALSE} or {}
    tts,                  \* session.audio.speak calls made so far
    wrapCall,             \* a call of wrapText on its own: arguments and result
    ttsRequests,          \* calls of playTTSWithDebounce on their own: what each
                          \* found and what it left
    questApp,             \* the QuestApp prototype: QuestManager, VoiceCommandHandler,
                          \* its pending timers and what the HUD shows
    hudOverlay,           \* the variant with periodic distance updates: the sessions
                          \* of the user, the intervals set and the user's entry of
                          \* distanceUpdateIntervals
    userStreak            \* completeQuest over the days: the streak columns of the
                          \* user's row, the date, and what the row held before

\* the variables of the application
appVars == <<session, userSessionsMap, scrollingTextActive, userLocationsMap,
             lastDistanceNotificationMap, invocations, display, sinkFailures,
             commands, proximity, activeQuests, user, lastTTSTimeMap, activeTTSMap, tts>>

\* the variables of the calls made to one function on its own
unitVars == <<wrapCall, ttsRequests, questApp, hudOverlay, userStreak>>

vars == <<appVars, unitVars>>

\* ------------------------------------------------------------------------
\* Bounds of the model
MaxCommands == 2
MaxProximity == 1
MaxLocationUpdates == 2
MaxTTSRequests == 3
MaxQuestTimers == 2
MaxPhrases == 2
MaxSessions == 3
MaxDays == 5
MaxCompletions == 4
MaxIntervalFirings == 2
MaxSinkFailures == 1
MaxInvocations == 2
MaxTextLength == 5
MaxWrapWidth == 3

\* ------------------------------------------------------------------------
\* Program constants
DefaultMaxLineLength == 36
DefaultMaxLinesPerScreen == 3
DefaultScrollDelay == 1400
OpenEndedDuration == -1
DistanceNotificationInterval == 6000
QuestPointsFallback == 100
TTSDebounceDelay == 2000
TTSResetDelay == 500
PhotoCaptureDelay == 2000
ActionCompletionDelay == 1000
VoicePromptDelay == 2000
InitialQuestDelay == 3000

\* a Map entry is the set of its values: empty when the key is absent
Absent == {}
Entry(v) == {v}
TheSession == "session"

\* the clock is read every TickMs
TickMs == DefaultScrollDelay

\* the step of the clock where a limit of whole seconds is met exactly
ClockStepMs == 1000

Min(a, b) == IF a < b THEN a ELSE b
Max(a, b) == IF a > b THEN a ELSE b

\* ------------------------------------------------------------------------
\* Strings
NL == "\n"
SP == " "

Word(n) == [i \in 1..n |-> "a"]

RECURSIVE JoinWith(_, _)
JoinWith(parts, sep) ==
    IF Len(parts) = 0 THEN <<>>
    ELSE IF Len(parts) = 1 THEN parts[1]
    ELSE parts[1] \o <<sep>> \o JoinWith(Tail(parts), sep)

\* the string written with the characters of chars
RECURSIVE Str(_)
Str(chars) ==
    IF Len(chars) = 0 THEN ""
    ELSE IF Len(chars) = 1 THEN chars[1]
    ELSE LET half == Len(chars) \div 2
         IN  Str(SubSeq(chars, 1, half)) \o Str(SubSeq(chars, half + 1, Len(chars)))

\* Array.prototype.join("\n") on strings
RECURSIVE JoinLines(_)
JoinLines(parts) ==
    IF Len(parts) = 0 THEN ""
    ELSE IF Len(parts) = 1 THEN parts[1]
    ELSE parts[1] \o NL \o JoinLines(Tail(parts))

\* String.prototype.split(sep) for a one-character separator: the pieces
\* between consecutive occurrences of sep, empty pieces included
FirstSep(text, sep) ==
    LET found == {i \in 1..Len(text) : text[i] = sep}
    IN  IF found = {} THEN 0 ELSE CHOOSE i \in found : \A j \in found : i <= j

RECURSIVE Split(_, _)
Split(text, sep) ==
    LET i == FirstSep(text, sep)
    IN  IF i = 0 THEN <<text>>
        ELSE <<SubSeq(text, 1, i - 1)>> \o Split(SubSeq(text, i + 1, Len(text)), sep)

\* s.trim() === ""
TrimIsEmpty(s) == \A i \in 1..Len(s) : s[i] \in {SP, NL}

\* Array.prototype.slice(from, to) with 0-based bounds; a negative bound
\* counts from the end
Slice(seq, from, to) ==
    LET lo == IF from < 0 THEN Max(Len(seq) + from, 0) ELSE Min(from, Len(seq))
        hi == IF to < 0 THEN Max(Len(seq) + to, 0) ELSE Min(to, Len(seq))
    IN  IF lo >= hi THEN <<>> ELSE SubSeq(seq, lo + 1, hi)

\* variant: the space between the words is not counted
FitsLineNoSpace(currentLine, word, maxLineLength) ==
    Len(currentLine \o word) <= maxLineLength

\* variant: a line of exactly maxLineLength characters is not filled
FitsLineStrict(currentLine, word, maxLineLength) ==
    Len(currentLine \o <<SP>> \o word) < maxLineLength

\* wrapText: the word still fits on the current line
FitsLine(currentLine, word, maxLineLength) ==
    Len(currentLine \o <<SP>> \o word) <= maxLineLength

\* ------------------------------------------------------------------------
\* wrapText: the inner loop over the words of one paragraph.
\* Returns the pair <<lines emitted, currentLine>>.
RECURSIVE WrapWords(_, _, _, _)
WrapWords(words, currentLine, lines, maxLineLength) ==
    IF Len(words) = 0 THEN <<lines, currentLine>>
    ELSE LET word == Head(words)
             rest == Tail(words)
         IN  IF TrimIsEmpty(word)
                 THEN WrapWords(rest, currentLine, lines, maxLineLength)
             ELSE IF currentLine = <<>>
                 THEN WrapWords(rest, word, lines, maxLineLength)
             ELSE IF FitsLine(currentLine, word, maxLineLength)
                 THEN WrapWords(rest, currentLine \o <<SP>> \o word, lines, maxLineLength)
             ELSE WrapWords(rest, word, Append(lines, currentLine), maxLineLength)

\* variant: the line still being filled when the words end is not pushed
WrapParagraphLosesLast(paragraph, maxLineLength) ==
    IF TrimIsEmpty(paragraph) THEN << <<>> >>
    ELSE WrapWords(Split(paragraph, SP), <<>>, <<>>, maxLineLength)[1]

\* variant: a paragraph without words gives no line
WrapParagraphSkipsBlank(paragraph, maxLineLength) ==
    IF TrimIsEmpty(paragraph) THEN <<>>
    ELSE LET r == WrapWords(Split(paragraph, SP), <<>>, <<>>, maxLineLength)
         IN  IF ~TrimIsEmpty(r[2]) THEN Append(r[1], r[2]) ELSE r[1]

\* variant: only the paragraph of no characters counts as empty
WrapParagraphNoTrim(paragraph, maxLineLength) ==
    IF paragraph = <<>> THEN << <<>> >>
    ELSE LET r == WrapWords(Split(paragraph, SP), <<>>, <<>>, maxLineLength)
         IN  IF ~TrimIsEmpty(r[2]) THEN Append(r[1], r[2]) ELSE r[1]

WrapParagraph(paragraph, maxLineLength) ==
    IF TrimIsEmpty(paragraph) THEN << <<>> >>
    ELSE LET r == WrapWords(Split(paragraph, SP), <<>>, <<>>, maxLineLength)
         IN  IF ~TrimIsEmpty(r[2]) THEN Append(r[1], r[2]) ELSE r[1]

RECURSIVE WrapParagraphs(_, _)
WrapParagraphs(paragraphs, maxLineLength) ==
    IF Len(paragraphs) = 0 THEN <<>>
    ELSE WrapParagraph(Head(paragraphs), maxLineLength)
             \o WrapParagraphs(Tail(paragraphs), maxLineLength)

wrapText(text, maxLineLength) == WrapParagraphs(Split(text, NL), maxLineLength)

\* ------------------------------------------------------------------------
\* Contents handed to displayScrollingText.  Only the lengths of the words
\* and the paragraph breaks of a text matter to the engine: every word is
\* written with the letter a.

\* the welcome card of onSession, with one-digit statistics
WelcomeContent ==
    JoinWith(<< JoinWith(<<Word(2), Word(5), Word(7), Word(1)>>, SP),
                JoinWith(<<Word(2), Word(6), Word(10), Word(1)>>, SP),
                <<>>,
                JoinWith(<<Word(3), Word(4), Word(6), Word(2), Word(5), Word(4), Word(10)>>, SP),
                <<>>,
                JoinWith(<<Word(9), Word(8), Word(7), Word(9), Word(7), Word(7), Word(7),
                           Word(4), Word(11)>>, SP) >>, NL)

\* the notice of showChallenges when no challenge is active: three lines
NoChallengesContent ==
    JoinWith(<<Word(2), Word(6), Word(10), Word(2), Word(4), Word(6), Word(5), Word(4),
               Word(5), Word(4), Word(5), Word(3), Word(3), Word(9), Word(6)>>, SP)

\* a card built from stored data (challenge list, completion card), cut
\* down to the shortest text that scrolls: one paragraph of four
\* 20-character words, which wraps to four lines
LongText == JoinWith([i \in 1..4 |-> Word(20)], SP)

Contents == {NoChallengesContent, LongText}

\* the empty string
EmptyContent == <<>>

\* the card of displayQuestTemplate for a template without distance, items
\* or notes: the description, the location name and address and the points,
\* with an empty line before the location and before the points: six lines
QuestContent ==
    JoinWith(<< JoinWith(<<Word(5), Word(3), Word(6), Word(8)>>, SP),
                <<>>,
                JoinWith(<<Word(2), Word(9), Word(7), Word(4)>>, SP),
                JoinWith(<<Word(3), Word(4), Word(6)>>, SP),
                <<>>,
                JoinWith(<<Word(2), Word(7), Word(3)>>, SP) >>, NL)

\* wrapText(content) with the default line length, for the contents above
WrappedLines ==
    [c \in Contents \cup {WelcomeContent, EmptyContent, QuestContent} |->
        LET lines == wrapText(c, DefaultMaxLineLength)
        IN  [i \in 1..Len(lines) |-> Str(lines[i])]]

\* the contents above as strings
ContentString ==
    [c \in Contents \cup {WelcomeContent, EmptyContent, QuestContent} |-> Str(c)]

\* ------------------------------------------------------------------------
\* displayScrollingText: the pure parts
\* variant: the comparison is strict
FitsOneScreenStrict(lines, maxLinesPerScreen) == Len(lines) < maxLinesPerScreen

FitsOneScreen(lines, maxLinesPerScreen) == Len(lines) <= maxLinesPerScreen

\* variant: one position short
TotalScrollPositionsShort(lines, maxLinesPerScreen) == Len(lines) - maxLinesPerScreen

TotalScrollPositions(lines, maxLinesPerScreen) == Len(lines) - maxLinesPerScreen + 1

\* variant: the window starts one line late
WindowLinesShifted(lines, position, maxLinesPerScreen) ==
    Slice(lines, position + 1, position + 1 + maxLinesPerScreen)

WindowLines(lines, position, maxLinesPerScreen) ==
    Slice(lines, position, position + maxLinesPerScreen)

FirstDuration(scrollDelay) == (scrollDelay * 3) \div 2

\* variant: no position is taken for the last, each window is followed by
\* a suspension
IsLastPositionNever(position, totalScrollPositions) == FALSE

\* variant: the position before the last one is taken for the last
IsLastPositionEarly(position, totalScrollPositions) == position = totalScrollPositions - 2

IsLastPosition(position, totalScrollPositions) == position = totalScrollPositions - 1

\* variant: the last window is shown no longer than the others
DisplayDurationUniform(position, totalScrollPositions, scrollDelay) ==
    (scrollDelay * 3) \div 2

DisplayDuration(position, totalScrollPositions, scrollDelay) ==
    IF IsLastPosition(position, totalScrollPositions)
        THEN scrollDelay * 4
        ELSE (scrollDelay * 3) \div 2

\* the userId found for a session by scanning userSessionsMap
FindUserId(sess) == sess \in userSessionsMap

\* variant: the flag is set before the fast path returns
FlagSetBeforeFastPath(userId) ==
    IF userId THEN {TRUE} ELSE scrollingTextActive

\* the fast path returns before the flag is written: the user's entry stays
FlagAfterFastPath(userId) == scrollingTextActive

\* variant: the flag is still false when the first window is rendered
FlagAtStartUnset == FALSE

\* variant: the flag is left set when the scroll ends
FlagAtEndKept == TRUE

\* the flag written at the start and at the end of a scroll
FlagAtStart == TRUE
FlagAtEnd == FALSE

\* a call received by session.layouts
LayoutCall(src, inv, cmd, pos, body, durationMs, ok) ==
    [src |-> src, inv |-> inv, cmd |-> cmd, pos |-> pos, body |-> body,
     durationMs |-> durationMs, ok |-> ok]

NoCall == LayoutCall("none", 0, 0, 0, "", 0, TRUE)

\* what the display shows after the calls made in one turn: the last call
\* that did not throw
RECURSIVE Shown(_, _)
Shown(shown, calls) ==
    IF Len(calls) = 0 THEN shown
    ELSE Shown(IF Head(calls).ok THEN Head(calls) ELSE shown, Tail(calls))

\* Map.get(userId) used as a condition
ScrollingActive == TRUE \in scrollingTextActive

\* what the first synchronous part of displayScrollingText ends in
ScrollOutcome(content, maxLinesPerScreen, throws) ==
    IF throws THEN "rejected"
    ELSE IF FitsOneScreen(WrappedLines[content], maxLinesPerScreen)
        THEN "resolved"
    ELSE "sleeping"

\* the synchronous first part of displayScrollingText, up to the first await
\* (or to the return of the fast path); by: the command that made the call,
\* 0 for onSession; awaited: the caller awaits the promise; throws: the
\* layout call throws; after: the layout calls the caller makes in the same
\* turn of the event loop.  Kept with the call for the properties: slept,
\* the time spent suspended so far; renderedAt, the value of slept at the
\* latest render; flagAtCall and flagAtReturn, the user's flag entry when the
\* synchronous part begins and ends
displayScrollingText(sess, content, maxLinesPerScreen, scrollDelay, by, awaited, throws, after) ==
    LET userId == FindUserId(sess)
        lines  == WrappedLines[content]
        id     == Len(invocations) + 1
        fast   == LayoutCall("scroll", id, by, 0, ContentString[content],
                             OpenEndedDuration, ~throws)
        first  == LayoutCall("scroll", id, by, 0,
                             JoinLines(WindowLines(lines, 0, maxLinesPerScreen)),
                             FirstDuration(scrollDelay), ~throws)
        call   == [pc |-> "resolved", userId |-> userId,
                   content |-> ContentString[content], lines |-> lines,
                   maxLinesPerScreen |-> maxLinesPerScreen, scrollDelay |-> scrollDelay,
                   position |-> 0, wait |-> 0, by |-> by, awaited |-> awaited,
                   suspensions |-> 0, flagWrites |-> 0, renders |-> <<>>,
                   slept |-> 0, renderedAt |-> 0,
                   flagAtCall |-> scrollingTextActive,
                   flagAtReturn |-> scrollingTextActive']
    IN  /\ throws => sinkFailures < MaxSinkFailures
        /\ sinkFailures' = IF throws THEN sinkFailures + 1 ELSE sinkFailures
        /\ IF FitsOneScreen(lines, maxLinesPerScreen)
           THEN /\ scrollingTextActive' = FlagAfterFastPath(userId)
                /\ display' = Shown(display, <<fast>> \o after)
                /\ invocations' = Append(invocations,
                        [call EXCEPT !.pc = IF throws THEN "rejected" ELSE "resolved",
                                     !.renders = <<fast>>])
           ELSE /\ scrollingTextActive' =
                        IF userId THEN Entry(FlagAtStart) ELSE scrollingTextActive
                /\ display' = Shown(display, <<first>> \o after)
                /\ invocations' = Append(invocations,
                        IF throws
                        THEN [call EXCEPT !.pc = "rejected", !.renders = <<first>>,
                                          !.flagWrites = IF userId THEN 1 ELSE 0]
                        ELSE [call EXCEPT !.pc = "sleeping", !.renders = <<first>>,
                                          !.flagWrites = IF userId THEN 1 ELSE 0,
                                          !.position = 1, !.wait = scrollDelay,
                                          !.suspensions = 1])

\* variant: the loop goes on after a throw and renders the position again
AfterSinkThrowRetry == "sleeping"

\* a throw of the layout call leaves the loop and rejects the promise
AfterSinkThrow == "rejected"

\* variant: the loop is given up once the session has been cleaned up
ScrollCancelledOnCleanup == session = "closed"

\* the loop has no exit but its bound and a throw: nothing cancels it
ScrollCancelled == FALSE

\* the timer of an awaited setTimeout fires: the loop runs one iteration,
\* or ends and clears the flag
ScrollStep(i, throws, after) ==
    LET c      == invocations[i]
        total  == TotalScrollPositions(c.lines, c.maxLinesPerScreen)
        last   == IsLastPosition(c.position, total)
        render == LayoutCall("scroll", i, c.by, c.position,
                             JoinLines(WindowLines(c.lines, c.position, c.maxLinesPerScreen)),
                             DisplayDuration(c.position, total, c.scrollDelay), ~throws)
        clear  == IF c.userId THEN 1 ELSE 0
    IN  /\ c.pc = "sleeping"
        /\ c.wait = 0
        /\ ~ScrollCancelled
        /\ throws => sinkFailures < MaxSinkFailures
        /\ IF c.position < total
           THEN /\ display' = Shown(display, <<render>> \o after)
                /\ sinkFailures' = IF throws THEN sinkFailures + 1 ELSE sinkFailures
                /\ IF throws
                   THEN /\ invocations' = [invocations EXCEPT
                                ![i].pc = AfterSinkThrow,
                                ![i].renderedAt = c.slept,
                                ![i].renders = Append(c.renders, render)]
                        /\ UNCHANGED scrollingTextActive
                   ELSE IF ~last
                   THEN /\ invocations' = [invocations EXCEPT
                                ![i].position = c.position + 1,
                                ![i].wait = c.scrollDelay,
                                ![i].suspensions = c.suspensions + 1,
                                ![i].renderedAt = c.slept,
                                ![i].renders = Append(c.renders, render)]
                        /\ UNCHANGED scrollingTextActive
                   ELSE /\ invocations' = [invocations EXCEPT
                                ![i].position = c.position + 1,
                                ![i].pc = "resolved",
                                ![i].flagWrites = c.flagWrites + clear,
                                ![i].renderedAt = c.slept,
                                ![i].renders = Append(c.renders, render)]
                        /\ scrollingTextActive' =
                                IF c.userId THEN Entry(FlagAtEnd) ELSE scrollingTextActive
           ELSE /\ ~throws
                /\ invocations' = [invocations EXCEPT
                        ![i].pc = "resolved",
                        ![i].flagWrites = c.flagWrites + clear]
                /\ scrollingTextActive' =
                        IF c.userId THEN Entry(FlagAtEnd) ELSE scrollingTextActive
                /\ display' = Shown(display, after)
                /\ UNCHANGED sinkFailures

\* ------------------------------------------------------------------------
\* playTTSWithDebounce
\* variant: the playing flag is not looked at
TTSShouldPlayAfterDelay(forcePlay) ==
    \/ forcePlay
    \/ \A age \in lastTTSTimeMap : age > TTSDebounceDelay

TTSShouldPlay(forcePlay) ==
    \/ forcePlay
    \/ /\ TRUE \notin activeTTSMap
       /\ \A age \in lastTTSTimeMap : age > TTSDebounceDelay

TTSPlays(sess, forcePlay) == FindUserId(sess) /\ TTSShouldPlay(forcePlay)

\* the synchronous part, up to the await of session.audio.speak;
\* cmd: the command that awaits the result, 0 when the call is not awaited
playTTSWithDebounce(sess, forcePlay, cmd) ==
    IF TTSPlays(sess, forcePlay)
    THEN /\ activeTTSMap' = Entry(TRUE)
         /\ lastTTSTimeMap' = Entry(0)
         /\ tts' = Append(tts, [pc |-> "speaking", cmd |-> cmd, wait |-> 0])
    ELSE UNCHANGED <<activeTTSMap, lastTTSTimeMap, tts>>

\* ------------------------------------------------------------------------
\* QuestDatabase: the user's rows of active_quests
\* null: no row
NoRow == 0

\* SELECT ... WHERE status = 'active' ORDER BY started_at DESC LIMIT 1
getUserActiveQuest(rows) ==
    LET found == {r \in 1..Len(rows) : rows[r] = "active"}
    IN  IF found = {} THEN NoRow ELSE CHOOSE r \in found : \A q \in found : q <= r

\* UPDATE ... SET status = 'abandoned' WHERE id = ?
abandonQuest(rows, id) == [rows EXCEPT ![id] = "abandoned"]

\* INSERT INTO active_quests ... VALUES (..., 'active', ...)
createActiveQuest(rows) == Append(rows, "active")

\* ------------------------------------------------------------------------
\* variant: the flag is not looked at
SkipsWhileScrollingNever == FALSE

\* the check made first by handleQuestCommands and showDistanceCardForUser
SkipsWhileScrolling == ScrollingActive

\* showDistanceCardForUser, up to its first await
CardBegins ==
    IF SkipsWhileScrolling THEN [pc |-> "done", card |-> "dropped"]
    ELSE [pc |-> "card_getQuest", card |-> "running"]

\* where a command goes once its playTTSWithDebounce call has returned
AfterTTS(kind) ==
    IF kind = "distance" THEN CardBegins
    ELSE IF kind = "new" THEN [pc |-> "new_template", card |-> "none"]
    ELSE IF kind = "reroll" THEN [pc |-> "rr_template", card |-> "none"]
    ELSE [pc |-> "chl_getProfile", card |-> "none"]

TextWall(src, cmd, durationMs) == LayoutCall(src, 0, cmd, 0, "", durationMs, TRUE)

\* the text walls command c shows once its playTTSWithDebounce call has
\* returned, before its next await; userLocation: what the handler holds as
\* the user's location
WallsAfterTTS(kind, c, userLocation) ==
    IF kind = "new"
        THEN IF userLocation THEN <<TextWall("voice", c, 3000)>> ELSE <<>>
    ELSE IF kind = "reroll"
        THEN <<TextWall("voice", c, 3000)>>
                \o IF userLocation THEN <<TextWall("voice", c, 10000)>> ELSE <<>>
    ELSE <<>>

\* the text walls a handler shows once displayQuestTemplate has returned
WallsAfterQuestDisplay(kind, c) ==
    IF kind = "reroll" THEN <<TextWall("voice", c, 4000)>> ELSE <<>>

\* the first await of the handlers that begin with a database read
FirstRead(kind) ==
    IF kind = "complete" THEN "cmp_getQuest"
    ELSE IF kind = "new" THEN "new_getQuest"
    ELSE "rr_getQuest"

\* cards that are longer than one screen
ScrollingContents ==
    {c \in Contents : ~FitsOneScreen(WrappedLines[c], DefaultMaxLinesPerScreen)}

CommandKinds == {"complete", "distance", "challenges"}

\* handleQuestCommands, up to its first await: a final transcription
\* arrives; the text is matched only after the flag check
Transcription(kind) ==
    LET c == Len(commands) + 1
        new == [pc |-> "dropped", kind |-> "unmatched", card |-> "none", writes |-> 0,
                existingQuest |-> NoRow, userLocation |-> FALSE]
    IN  /\ session = "open"
        /\ Len(commands) < MaxCommands
        /\ IF SkipsWhileScrolling
           THEN /\ commands' = Append(commands, new)
                /\ UNCHANGED <<activeTTSMap, lastTTSTimeMap, tts>>
           ELSE IF kind \in {"complete", "new", "reroll"}
           THEN /\ commands' = Append(commands, [new EXCEPT !.pc = FirstRead(kind), !.kind = kind])
                /\ UNCHANGED <<activeTTSMap, lastTTSTimeMap, tts>>
           ELSE /\ playTTSWithDebounce(TheSession, FALSE, c)
                /\ commands' = Append(commands,
                        IF TTSPlays(TheSession, FALSE)
                        THEN [new EXCEPT !.pc = "tts", !.kind = kind]
                        ELSE [new EXCEPT !.pc = AfterTTS(kind).pc, !.kind = kind,
                                         !.card = AfterTTS(kind).card])
        /\ UNCHANGED <<unitVars, session, userSessionsMap, scrollingTextActive, userLocationsMap,
                       lastDistanceNotificationMap, invocations, display, sinkFailures,
                       proximity, activeQuests, user>>

\* session.audio.speak settles: "success", "failure" (result.success false)
\* or "throw"; the awaiting command goes on in the same turn
SpeakSettles(t, outcome) ==
    /\ tts[t].pc = "speaking"
    /\ IF outcome = "success"
       THEN /\ tts' = [tts EXCEPT ![t].pc = "reset", ![t].cmd = 0, ![t].wait = TTSResetDelay]
            /\ UNCHANGED activeTTSMap
       ELSE /\ tts' = [tts EXCEPT ![t].pc = "done", ![t].cmd = 0]
            /\ activeTTSMap' = Entry(FALSE)
    /\ IF tts[t].cmd = 0
       THEN UNCHANGED <<commands, display>>
       ELSE LET c == tts[t].cmd
                kind == commands[c].kind
                \* 'reroll quest' reads the location after the await
                userLocation == IF kind = "reroll" THEN userLocationsMap
                                ELSE commands[c].userLocation
                walls == WallsAfterTTS(kind, c, userLocation)
            IN  /\ commands' = [commands EXCEPT ![c].pc = AfterTTS(kind).pc,
                                                ![c].card = AfterTTS(kind).card,
                                                ![c].userLocation = userLocation,
                                                ![c].writes = @ + Len(walls)]
                /\ display' = Shown(display, walls)
    /\ UNCHANGED <<unitVars, session, userSessionsMap, scrollingTextActive, userLocationsMap,
                   lastDistanceNotificationMap, invocations, sinkFailures,
                   proximity, activeQuests, user, lastTTSTimeMap>>

\* variant: the timer leaves the user marked as playing
TTSFlagAfterResetKept == TRUE

\* what the timer set after a successful speak writes to activeTTSMap
TTSFlagAfterReset == FALSE

\* the 500 ms timer set after a successful speak
TTSResetTimer(t) ==
    /\ tts[t].pc = "reset"
    /\ tts[t].wait = 0
    /\ tts' = [tts EXCEPT ![t].pc = "done"]
    /\ activeTTSMap' = Entry(TTSFlagAfterReset)
    /\ UNCHANGED <<unitVars, session, userSessionsMap, scrollingTextActive, userLocationsMap,
                   lastDistanceNotificationMap, invocations, display, sinkFailures,
                   commands, proximity, activeQuests, user, lastTTSTimeMap>>

\* 'complete quest': four database calls, then the completion card (scroll
\* not awaited) and the forced TTS (not awaited)
CompleteQuestStep(c, content, throws) ==
    LET cmd == commands[c]
    IN  /\ cmd.pc \in {"cmp_getQuest", "cmp_getTemplate", "cmp_complete", "cmp_getUser"}
        /\ IF cmd.pc = "cmp_getUser"
           THEN /\ content \in ScrollingContents
                /\ displayScrollingText(TheSession, content, DefaultMaxLinesPerScreen,
                        DefaultScrollDelay, c, FALSE, throws, <<>>)
                /\ playTTSWithDebounce(TheSession, TRUE, 0)
                /\ commands' = [commands EXCEPT ![c].pc = "done"]
                /\ UNCHANGED <<activeQuests, user>>
           ELSE /\ ~throws /\ content = <<>>
                /\ UNCHANGED <<invocations, sinkFailures, scrollingTextActive,
                               lastTTSTimeMap, activeTTSMap, tts>>
                /\ IF cmd.pc = "cmp_getQuest"
                   THEN IF getUserActiveQuest(activeQuests) # NoRow
                        THEN /\ commands' = [commands EXCEPT
                                        ![c].pc = "cmp_getTemplate",
                                        ![c].existingQuest = getUserActiveQuest(activeQuests)]
                             /\ UNCHANGED <<display, activeQuests, user>>
                        ELSE /\ commands' = [commands EXCEPT ![c].pc = "done",
                                                              ![c].writes = cmd.writes + 1]
                             /\ display' = TextWall("voice", c, 3000)
                             /\ UNCHANGED <<activeQuests, user>>
                   ELSE IF cmd.pc = "cmp_getTemplate"
                   THEN /\ commands' = [commands EXCEPT ![c].pc = "cmp_complete"]
                        /\ UNCHANGED <<display, activeQuests, user>>
                   ELSE /\ commands' = [commands EXCEPT ![c].pc = "cmp_getUser"]
                        /\ activeQuests' = [activeQuests EXCEPT ![cmd.existingQuest] = "completed"]
                        /\ user' = [total_points |-> user.total_points + QuestPointsFallback,
                                    quests_completed |-> user.quests_completed + 1]
                        /\ UNCHANGED display
        /\ UNCHANGED <<unitVars, session, userSessionsMap, userLocationsMap,
                       lastDistanceNotificationMap, proximity>>

\* showDistanceCardForUser after its flag check: two database reads, the
\* directions lookup, then the card
DistanceCardStep(c) ==
    LET cmd == commands[c]
    IN  /\ cmd.pc \in {"card_getQuest", "card_getTemplate", "card_directions"}
        /\ IF cmd.pc = "card_getQuest"
           THEN /\ commands' = IF getUserActiveQuest(activeQuests) # NoRow
                               THEN [commands EXCEPT ![c].pc = "card_getTemplate"]
                               ELSE [commands EXCEPT ![c].pc = "done", ![c].card = "skipped"]
                /\ UNCHANGED display
           ELSE IF cmd.pc = "card_getTemplate"
           THEN /\ commands' = IF userLocationsMap
                               THEN [commands EXCEPT ![c].pc = "card_directions"]
                               ELSE [commands EXCEPT ![c].pc = "done", ![c].card = "skipped"]
                /\ UNCHANGED display
           ELSE /\ commands' = [commands EXCEPT ![c].pc = "done", ![c].card = "shown",
                                                 ![c].writes = cmd.writes + 1]
                /\ display' = TextWall("distance", c, 5000)
        /\ UNCHANGED <<unitVars, session, userSessionsMap, scrollingTextActive, userLocationsMap,
                       lastDistanceNotificationMap, invocations, sinkFailures, proximity,
                       activeQuests, user, lastTTSTimeMap, activeTTSMap, tts>>

\* showChallenges: the profile read, then the awaited displayScrollingText;
\* its catch block shows an error wall
ChallengesStep(c, content, throws) ==
    LET cmd == commands[c]
    IN  /\ cmd.pc = "chl_getProfile"
        /\ content \in Contents
        /\ displayScrollingText(TheSession, content, DefaultMaxLinesPerScreen,
                DefaultScrollDelay, c, TRUE, throws,
                IF throws THEN <<TextWall("voice", c, 3000)>> ELSE <<>>)
        /\ commands' = [commands EXCEPT
                ![c].pc = IF ScrollOutcome(content, DefaultMaxLinesPerScreen, throws) = "sleeping"
                          THEN "scroll" ELSE "done",
                ![c].writes = IF throws THEN cmd.writes + 1 ELSE cmd.writes]
        /\ UNCHANGED <<unitVars, session, userSessionsMap, userLocationsMap,
                       lastDistanceNotificationMap, proximity, activeQuests, user,
                       lastTTSTimeMap, activeTTSMap, tts>>

\* ------------------------------------------------------------------------
\* the quest card of 'new quest' and 'reroll quest': displayQuestTemplate,
\* awaited by the handler; the catch block of the handler shows an error
\* wall, and what follows the await runs in the turn of a fast-path return
QuestDisplayBegins(c, kind, throws) ==
    LET after == IF throws THEN <<TextWall("voice", c, 3000)>>
                 ELSE IF ScrollOutcome(QuestContent, DefaultMaxLinesPerScreen, throws) = "resolved"
                     THEN WallsAfterQuestDisplay(kind, c)
                 ELSE <<>>
    IN  /\ displayScrollingText(TheSession, QuestContent, DefaultMaxLinesPerScreen,
                DefaultScrollDelay, c, TRUE, throws, after)
        /\ commands' = [commands EXCEPT
                ![c].pc = IF ScrollOutcome(QuestContent, DefaultMaxLinesPerScreen, throws)
                                = "sleeping"
                          THEN "scroll" ELSE "done",
                ![c].writes = @ + Len(after)]

\* a handler shows one text wall and returns
WallAndReturn(c, durationMs) ==
    /\ commands' = [commands EXCEPT ![c].pc = "done", ![c].writes = @ + 1]
    /\ display' = TextWall("voice", c, durationMs)

\* the handler calls playTTSWithDebounce and awaits it; a call that is
\* skipped returns at once and the handler goes on to its next await
TTSThenTemplate(c, kind, userLocation) ==
    LET walls == WallsAfterTTS(kind, c, userLocation)
    IN  /\ playTTSWithDebounce(TheSession, FALSE, c)
        /\ IF TTSPlays(TheSession, FALSE)
           THEN /\ commands' = [commands EXCEPT ![c].pc = "tts",
                                                ![c].userLocation = userLocation]
                /\ UNCHANGED display
           ELSE /\ commands' = [commands EXCEPT ![c].pc = AfterTTS(kind).pc,
                                                ![c].userLocation = userLocation,
                                                ![c].writes = @ + Len(walls)]
                /\ display' = Shown(display, walls)

\* 'new quest' after each of its awaits: getUserActiveQuest, the template
\* lookup (generateAIQuest or getRandomQuestTemplate) and
\* createActiveQuestForUser; ok: the awaited call gave a result
NewQuestStep(c, ok, throws) ==
    LET cmd == commands[c]
    IN  /\ cmd.pc \in {"new_getQuest", "new_template", "new_create"}
        /\ IF cmd.pc = "new_getQuest"
           THEN /\ ok /\ ~throws
                /\ IF getUserActiveQuest(activeQuests) # NoRow
                   THEN /\ WallAndReturn(c, 4000)
                        /\ UNCHANGED <<lastTTSTimeMap, activeTTSMap, tts>>
                   ELSE TTSThenTemplate(c, "new", userLocationsMap)
                /\ UNCHANGED <<activeQuests, invocations, sinkFailures, scrollingTextActive>>
           ELSE IF cmd.pc = "new_template"
           THEN /\ ~throws
                /\ IF ok
                   THEN /\ commands' = [commands EXCEPT ![c].pc = "new_create"]
                        /\ UNCHANGED display
                   ELSE WallAndReturn(c, 3000)
                /\ UNCHANGED <<activeQuests, invocations, sinkFailures, scrollingTextActive,
                               lastTTSTimeMap, activeTTSMap, tts>>
           ELSE /\ IF ok
                   THEN /\ activeQuests' = createActiveQuest(activeQuests)
                        /\ QuestDisplayBegins(c, "new", throws)
                   ELSE /\ ~throws
                        /\ WallAndReturn(c, 3000)
                        /\ UNCHANGED <<activeQuests, invocations, sinkFailures,
                                       scrollingTextActive>>
                /\ UNCHANGED <<lastTTSTimeMap, activeTTSMap, tts>>
        /\ UNCHANGED <<unitVars, session, userSessionsMap, userLocationsMap,
                       lastDistanceNotificationMap, proximity, user>>

\* 'reroll quest' after each of its awaits: getUserActiveQuest,
\* abandonQuest, the template lookup and createActiveQuest
RerollStep(c, ok, throws) ==
    LET cmd == commands[c]
    IN  /\ cmd.pc \in {"rr_getQuest", "rr_abandon", "rr_template", "rr_create"}
        /\ IF cmd.pc = "rr_getQuest"
           THEN /\ ok /\ ~throws
                /\ IF getUserActiveQuest(activeQuests) = NoRow
                   THEN WallAndReturn(c, 3000)
                   ELSE /\ commands' = [commands EXCEPT
                                ![c].pc = "rr_abandon",
                                ![c].existingQuest = getUserActiveQuest(activeQuests)]
                        /\ UNCHANGED display
                /\ UNCHANGED <<activeQuests, invocations, sinkFailures, scrollingTextActive,
                               lastTTSTimeMap, activeTTSMap, tts>>
           ELSE IF cmd.pc = "rr_abandon"
           THEN /\ ok /\ ~throws
                /\ activeQuests' = abandonQuest(activeQuests, cmd.existingQuest)
                /\ TTSThenTemplate(c, "reroll", userLocationsMap)
                /\ UNCHANGED <<invocations, sinkFailures, scrollingTextActive>>
           ELSE IF cmd.pc = "rr_template"
           THEN /\ ~throws
                /\ IF ok
                   THEN /\ commands' = [commands EXCEPT ![c].pc = "rr_create"]
                        /\ UNCHANGED display
                   ELSE WallAndReturn(c, 3000)
                /\ UNCHANGED <<activeQuests, invocations, sinkFailures, scrollingTextActive,
                               lastTTSTimeMap, activeTTSMap, tts>>
           ELSE /\ IF ok
                   THEN /\ activeQuests' = createActiveQuest(activeQuests)
                        /\ QuestDisplayBegins(c, "reroll", throws)
                   ELSE /\ ~throws
                        /\ WallAndReturn(c, 3000)
                        /\ UNCHANGED <<activeQuests, invocations, sinkFailures,
                                       scrollingTextActive>>
                /\ UNCHANGED <<lastTTSTimeMap, activeTTSMap, tts>>
        /\ UNCHANGED <<unitVars, session, userSessionsMap, userLocationsMap,
                       lastDistanceNotificationMap, proximity, user>>

\* ------------------------------------------------------------------------
\* a scroll timer fires; when the invocation settles, the command awaiting it
\* goes on in the same turn (the catch block shows an error wall)
ScrollSettles(i, throws) ==
    LET c == invocations[i]
        total == TotalScrollPositions(c.lines, c.maxLinesPerScreen)
    IN  throws \/ c.position >= total \/ IsLastPosition(c.position, total)

ScrollTimer(i, throws) ==
    LET caller  == invocations[i].by
        awaited == invocations[i].awaited
        after   == IF ~awaited \/ ~ScrollSettles(i, throws) THEN <<>>
                   ELSE IF throws THEN <<TextWall("voice", caller, 3000)>>
                   ELSE WallsAfterQuestDisplay(commands[caller].kind, caller)
    IN  /\ ScrollStep(i, throws, after)
        /\ commands' = IF awaited /\ ScrollSettles(i, throws)
                       THEN [commands EXCEPT
                                ![caller].pc = "done",
                                ![caller].writes = @ + Len(after)]
                       ELSE commands
        /\ UNCHANGED <<unitVars, session, userSessionsMap, userLocationsMap,
                       lastDistanceNotificationMap, proximity, activeQuests, user,
                       lastTTSTimeMap, activeTTSMap, tts>>

\* ------------------------------------------------------------------------
\* the location stream callback: stores the location and starts
\* checkQuestProximity, which first awaits the database
LocationArrives ==
    /\ session = "open"
    /\ userLocationsMap' = TRUE
    /\ proximity' = Append(proximity,
            [pc |-> "getQuest", writes |-> 0, ago |-> 0, since |-> {}])
    /\ UNCHANGED <<unitVars, session, userSessionsMap, scrollingTextActive,
                   lastDistanceNotificationMap, invocations, display, sinkFailures,
                   commands, activeQuests, user, lastTTSTimeMap, activeTTSMap, tts>>

\* variant: a notification is due as soon as the interval has passed
NotificationDueAtInterval ==
    \A age \in lastDistanceNotificationMap : age >= DistanceNotificationInterval

LocationUpdate == Len(proximity) < MaxProximity /\ LocationArrives

\* the throttle of the distance notification
NotificationDue ==
    \A age \in lastDistanceNotificationMap : age > DistanceNotificationInterval

\* what checkQuestProximity requires of the scrolling flag before it writes
ProximityMayWrite == TRUE

\* how long ago each proximity notification on the display was written
Notified == {proximity[q].ago : q \in {r \in 1..Len(proximity) : proximity[r].writes = 1}}

\* checkQuestProximity after each of its two database reads; since: the
\* times passed since the earlier notifications when this one is written
ProximityStep(p) ==
    LET chk == proximity[p]
    IN  /\ chk.pc \in {"getQuest", "getTemplate"}
        /\ IF chk.pc = "getQuest"
           THEN /\ proximity' = [proximity EXCEPT ![p].pc =
                        IF getUserActiveQuest(activeQuests) # NoRow
                        THEN "getTemplate" ELSE "done"]
                /\ UNCHANGED <<lastDistanceNotificationMap, display>>
           ELSE IF NotificationDue /\ ProximityMayWrite
                THEN /\ proximity' = [proximity EXCEPT ![p].pc = "done", ![p].writes = 1,
                                                         ![p].since = Notified]
                     /\ lastDistanceNotificationMap' = Entry(0)
                     /\ display' = TextWall("proximity", 0, 2000)
                ELSE /\ proximity' = [proximity EXCEPT ![p].pc = "done"]
                     /\ UNCHANGED <<lastDistanceNotificationMap, display>>
        /\ UNCHANGED <<unitVars, session, userSessionsMap, scrollingTextActive, userLocationsMap,
                       invocations, sinkFailures, commands, activeQuests, user,
                       lastTTSTimeMap, activeTTSMap, tts>>

\* ------------------------------------------------------------------------
\* onSession: registers the session, then awaits the database
OnSessionStart ==
    /\ session = "new"
    /\ session' = "init"
    /\ userSessionsMap' = Entry(TheSession)
    /\ UNCHANGED <<unitVars, scrollingTextActive, userLocationsMap, lastDistanceNotificationMap,
                   invocations, display, sinkFailures, commands, proximity, activeQuests, user,
                   lastTTSTimeMap, activeTTSMap, tts>>

\* onSession after the database calls settled: the welcome card (scroll not
\* awaited) or the offline notice; then the listeners and the cleanup
\* handler are registered
OnSessionReady(dbOk, throws) ==
    /\ session = "init"
    /\ session' = "open"
    /\ IF dbOk
       THEN displayScrollingText(TheSession, WelcomeContent, DefaultMaxLinesPerScreen,
                                 DefaultScrollDelay, 0, FALSE, throws, <<>>)
       ELSE /\ ~throws
            /\ display' = TextWall("session", 0, 3000)
            /\ UNCHANGED <<scrollingTextActive, invocations, sinkFailures>>
    /\ UNCHANGED <<unitVars, userSessionsMap, userLocationsMap, lastDistanceNotificationMap,
                   commands, proximity, activeQuests, user, lastTTSTimeMap, activeTTSMap, tts>>

\* the cleanup handler registered by onSession
Cleanup ==
    /\ session = "open"
    /\ session' = "closed"
    /\ userSessionsMap' = Absent
    /\ userLocationsMap' = FALSE
    /\ scrollingTextActive' = Absent
    /\ lastTTSTimeMap' = Absent
    /\ activeTTSMap' = Absent
    /\ UNCHANGED <<unitVars, lastDistanceNotificationMap, invocations, display, sinkFailures,
                   commands, proximity, activeQuests, user, tts>>

\* ------------------------------------------------------------------------
\* time
TimerDue ==
    \/ \E i \in 1..Len(invocations) : invocations[i].pc = "sleeping" /\ invocations[i].wait = 0
    \/ \E t \in 1..Len(tts) : tts[t].pc = "reset" /\ tts[t].wait = 0

\* an age grows until it has passed the limit it is compared with
Older(age, limit, ms) == IF age > limit THEN age ELSE age + ms

\* the time since a proximity notification was written
Ago(chk, ms) ==
    IF chk.writes = 0 THEN chk
    ELSE [chk EXCEPT !.ago = Older(chk.ago, DistanceNotificationInterval, ms)]

\* ms milliseconds pass; a timer that is due fires before the clock is read
\* again
Pass(ms) ==
    /\ ~TimerDue
    /\ invocations' = [i \in 1..Len(invocations) |->
            [invocations[i] EXCEPT !.wait = Max(0, invocations[i].wait - ms),
                                   !.slept = invocations[i].slept
                                                + Min(ms, invocations[i].wait)]]
    /\ tts' = [t \in 1..Len(tts) |-> [tts[t] EXCEPT !.wait = Max(0, tts[t].wait - ms)]]
    /\ proximity' = [p \in 1..Len(proximity) |-> Ago(proximity[p], ms)]
    /\ lastDistanceNotificationMap' =
            {Older(age, DistanceNotificationInterval, ms) : age \in lastDistanceNotificationMap}
    /\ lastTTSTimeMap' = {Older(age, TTSDebounceDelay, ms) : age \in lastTTSTimeMap}
    /\ UNCHANGED <<unitVars, session, userSessionsMap, scrollingTextActive, userLocationsMap,
                   display, sinkFailures, commands, activeQuests, user, activeTTSMap>>
    /\ vars' # vars

Tick == Pass(TickMs)

\* ------------------------------------------------------------------------
\* The QuestApp prototype (QuestManager, HUDOverlay, VoiceCommandHandler)
\* QuestManager.initializeSampleData: the five quests in the order of the
\* quests Map, and the current user
SampleQuests ==
    << [type |-> "action",   reward |-> 50,  expiresAfterHours |-> 24],
       [type |-> "photo",    reward |-> 75,  expiresAfterHours |-> 48],
       [type |-> "location", reward |-> 100, expiresAfterHours |-> 72],
       [type |-> "action",   reward |-> 60,  expiresAfterHours |-> 12],
       [type |-> "photo",    reward |-> 120, expiresAfterHours |-> 96] >>

SampleUser == [totalPoints |-> 1250, streak |-> 5]

QuestIds == 1..Len(SampleQuests)

\* currentQuest = null
NoQuest == 0

\* the state after new QuestApp(): no session yet.  completed[q] is "" for
\* a quest that is not completed and else names the timer whose callback
\* completed it; hours is the time since the sample data was created
NewQuestApp ==
    [voiceHandler |-> FALSE, currentQuest |-> NoQuest,
     completed |-> [q \in QuestIds |-> ""], user |-> SampleUser,
     timers |-> <<>>, hud |-> "none", hours |-> 0]

\* QuestManager.getAvailableQuests: not completed and not expired, in the
\* order of the Map
getAvailableQuests(app) ==
    SelectSeq([q \in QuestIds |-> q],
              LAMBDA q : /\ app.completed[q] = ""
                         /\ SampleQuests[q].expiresAfterHours > app.hours)

\* QuestManager.acceptQuest
acceptQuest(app, questId) == questId # NoQuest /\ app.completed[questId] = ""

\* variant: completing a quest adds nothing to the points
QuestRewardNone(questId) == 0

\* variant: the reward is added twice
QuestRewardTwice(questId) == 2 * SampleQuests[questId].reward

QuestReward(questId) == SampleQuests[questId].reward

\* QuestManager.completeQuest, called from the callback of the timer by
completeQuest(app, questId, by) ==
    IF questId = NoQuest \/ app.completed[questId] # ""
    THEN [success |-> FALSE, app |-> app]
    ELSE [success |-> TRUE,
          app |-> [app EXCEPT !.completed[questId] = by,
                              !.user.totalPoints = @ + QuestReward(questId),
                              !.user.streak = @ + 1]]

\* the phrases handleVoiceCommand looks for, in the order of its tests
Phrases ==
    << "accept quest", "decline quest", "show quests", "show streak",
       "show leaderboard", "take photo", "mark complete", "help" >>

\* a final transcription: the phrases its text contains
Transcriptions == {text \in SUBSET (1..Len(Phrases)) : Cardinality(text) <= MaxPhrases}

\* the first test of handleVoiceCommand that the text passes
Matched(text) ==
    IF text = {} THEN "none"
    ELSE Phrases[CHOOSE k \in text : \A j \in text : k <= j]

QuestTimer(kind, delay) == [kind |-> kind, delay |-> delay, wait |-> delay]

\* the completion timers that have not fired yet
CompletionTimers(app) ==
    Cardinality({k \in 1..Len(app.timers) : app.timers[k].kind \in {"photo", "action"}})

acceptCurrentQuest(app) ==
    IF app.currentQuest = NoQuest THEN [app EXCEPT !.hud = "error"]
    ELSE IF acceptQuest(app, app.currentQuest) THEN [app EXCEPT !.hud = "details"]
    ELSE [app EXCEPT !.hud = "error"]

declineCurrentQuest(app) ==
    IF app.currentQuest = NoQuest THEN [app EXCEPT !.hud = "error"]
    ELSE [app EXCEPT !.hud = "success", !.currentQuest = NoQuest]

showAvailableQuests(app) ==
    LET quests == getAvailableQuests(app)
    IN  IF Len(quests) = 0 THEN [app EXCEPT !.hud = "error"]
        ELSE [app EXCEPT !.currentQuest = quests[1], !.hud = "questPrompt"]

handlePhotoCapture(app) ==
    IF app.currentQuest = NoQuest \/ SampleQuests[app.currentQuest].type # "photo"
    THEN [app EXCEPT !.hud = "error"]
    ELSE [app EXCEPT !.hud = "photoPrompt",
                     !.timers = Append(@, QuestTimer("photo", PhotoCaptureDelay))]

handleQuestCompletion(app) ==
    IF app.currentQuest = NoQuest THEN [app EXCEPT !.hud = "error"]
    ELSE IF SampleQuests[app.currentQuest].type = "action"
    THEN [app EXCEPT !.hud = "actionPrompt",
                     !.timers = Append(@, QuestTimer("action", ActionCompletionDelay))]
    ELSE [app EXCEPT !.hud = "error"]

\* simulatePhotoCapture and simulateActionCompletion: the same body
simulateCompletion(app, by) ==
    IF app.currentQuest = NoQuest THEN app
    ELSE LET done == completeQuest(app, app.currentQuest, by)
         IN  IF done.success
             THEN [done.app EXCEPT !.hud = "completion", !.currentQuest = NoQuest]
             ELSE [app EXCEPT !.hud = "error"]

handleVoiceCommand(app, text) ==
    LET command == Matched(text)
    IN  IF command = "accept quest" THEN acceptCurrentQuest(app)
        ELSE IF command = "decline quest" THEN declineCurrentQuest(app)
        ELSE IF command = "show quests" THEN showAvailableQuests(app)
        ELSE IF command = "show streak" THEN [app EXCEPT !.hud = "streak"]
        ELSE IF command = "show leaderboard" THEN [app EXCEPT !.hud = "leaderboard"]
        ELSE IF command = "take photo" THEN handlePhotoCapture(app)
        ELSE IF command = "mark complete" THEN handleQuestCompletion(app)
        ELSE IF command = "help" THEN [app EXCEPT !.hud = "voicePrompt"]
        ELSE [app EXCEPT !.hud = "error"]

\* QuestApp.onSession: the overlay and the handler are created, the welcome
\* is shown, two timers are set and the transcription listener registered
QuestOnSession ==
    /\ ~questApp.voiceHandler
    /\ questApp' = [questApp EXCEPT
            !.voiceHandler = TRUE, !.hud = "welcome",
            !.timers = @ \o << QuestTimer("voicePrompt", VoicePromptDelay),
                               QuestTimer("initialQuest", InitialQuestDelay) >>]
    /\ UNCHANGED <<appVars, wrapCall, ttsRequests, hudOverlay, userStreak>>

\* a final transcription arrives; no more than MaxQuestTimers completion
\* timers are left pending
QuestTranscription(text) ==
    /\ questApp.voiceHandler
    /\ questApp' = handleVoiceCommand(questApp, text)
    /\ CompletionTimers(questApp') <= MaxQuestTimers
    /\ questApp' # questApp
    /\ UNCHANGED <<appVars, wrapCall, ttsRequests, hudOverlay, userStreak>>

RemoveAt(seq, k) == SubSeq(seq, 1, k - 1) \o SubSeq(seq, k + 1, Len(seq))

\* a timer fires: of the timers set with the same delay, the one set first
QuestTimerFires(k) ==
    LET timer == questApp.timers[k]
        app   == [questApp EXCEPT !.timers = RemoveAt(@, k)]
    IN  /\ timer.wait = 0
        /\ \A j \in 1..(k - 1) : questApp.timers[j].delay # timer.delay
        /\ questApp' =
                IF timer.kind = "voicePrompt" THEN [app EXCEPT !.hud = "voicePrompt"]
                ELSE IF timer.kind = "initialQuest"
                THEN IF Len(getAvailableQuests(app)) > 0
                     THEN [app EXCEPT !.hud = "questPrompt"] ELSE app
                ELSE simulateCompletion(app, timer.kind)
        /\ UNCHANGED <<appVars, wrapCall, ttsRequests, hudOverlay, userStreak>>

\* ClockStepMs pass; a timer that is due fires first
QuestPass ==
    /\ questApp.timers # <<>>
    /\ \A k \in 1..Len(questApp.timers) : questApp.timers[k].wait > 0
    /\ questApp' = [questApp EXCEPT !.timers =
            [k \in 1..Len(questApp.timers) |->
                [questApp.timers[k] EXCEPT !.wait = Max(0, @ - ClockStepMs)]]]
    /\ UNCHANGED <<appVars, wrapCall, ttsRequests, hudOverlay, userStreak>>

\* hours pass, up to the next expiresAt; the pending timers have fired
QuestHoursPass ==
    LET later == {SampleQuests[q].expiresAfterHours : q \in QuestIds} \ (0..questApp.hours)
    IN  /\ questApp.timers = <<>>
        /\ later # {}
        /\ questApp' = [questApp EXCEPT !.hours = CHOOSE h \in later : \A g \in later : h <= g]
        /\ UNCHANGED <<appVars, wrapCall, ttsRequests, hudOverlay, userStreak>>

QuestNext ==
    \/ QuestOnSession
    \/ \E text \in Transcriptions : QuestTranscription(text)
    \/ \E k \in 1..Len(questApp.timers) : QuestTimerFires(k)
    \/ QuestPass
    \/ QuestHoursPass

\* ------------------------------------------------------------------------
\* The variant with periodic distance updates (components/HUDOverlay.ts):
\* onSession and the cleanup handler it registers, for the sessions of one
\* user.  sessions: the stage of each onSession call, "init" while it awaits
\* the database, "open" once its interval is set and its cleanup handler
\* registered, "closed" once that handler has run; the interval set by the
\* k-th call is named k.  scheduled: the intervals set and not cleared;
\* cards: the showDistanceCardForUser calls the intervals have made
NewHudOverlay ==
    [sessions |-> <<>>, scheduled |-> {}, distanceUpdateIntervals |-> Absent, cards |-> 0]

\* onSession up to its first await
HudOnSessionStart ==
    /\ Len(hudOverlay.sessions) < MaxSessions
    /\ hudOverlay' = [hudOverlay EXCEPT !.sessions = Append(@, "init")]
    /\ UNCHANGED <<appVars, wrapCall, ttsRequests, questApp, userStreak>>

\* onSession after the database calls: setInterval, the Map entry of the
\* user is set to the new interval, the cleanup handler is registered
HudOnSessionReady(k) ==
    /\ hudOverlay.sessions[k] = "init"
    /\ hudOverlay' = [hudOverlay EXCEPT !.sessions[k] = "open",
                                        !.scheduled = @ \cup {k},
                                        !.distanceUpdateIntervals = Entry(k)]
    /\ UNCHANGED <<appVars, wrapCall, ttsRequests, questApp, userStreak>>

\* the cleanup handler registered by the k-th onSession call: clears the
\* interval found in the user's entry, if there is one
HudCleanup(k) ==
    /\ hudOverlay.sessions[k] = "open"
    /\ hudOverlay' = [hudOverlay EXCEPT
            !.sessions[k] = "closed",
            !.scheduled = @ \ hudOverlay.distanceUpdateIntervals,
            !.distanceUpdateIntervals = Absent]
    /\ UNCHANGED <<appVars, wrapCall, ttsRequests, questApp, userStreak>>

\* 30 seconds have passed for an interval that is scheduled: its callback
\* calls showDistanceCardForUser
HudIntervalFires(k) ==
    /\ k \in hudOverlay.scheduled
    /\ hudOverlay.cards < MaxIntervalFirings
    /\ hudOverlay' = [hudOverlay EXCEPT !.cards = @ + 1]
    /\ UNCHANGED <<appVars, wrapCall, ttsRequests, questApp, userStreak>>

HudNext ==
    \/ HudOnSessionStart
    \/ \E k \in 1..Len(hudOverlay.sessions) : HudOnSessionReady(k)
    \/ \E k \in 1..Len(hudOverlay.sessions) : HudCleanup(k)
    \/ \E k \in 1..Len(hudOverlay.sessions) : HudIntervalFires(k)

\* ------------------------------------------------------------------------
\* QuestDatabase.completeQuest: the streak columns of the user's row.  The
\* days are numbered; last_quest_date is Absent for the empty string of a
\* new row, or holds the day of the latest completion
\* variant: a completion on the day of the latest one counts as well
StreakContinuesSameDay(last_quest_date, today) ==
    \/ last_quest_date = Entry(today - 1)
    \/ last_quest_date = Absent
    \/ last_quest_date = Entry(today)

\* WHEN date(last_quest_date) = date('now', '-1 day') OR last_quest_date = ''
StreakContinues(last_quest_date, today) ==
    \/ last_quest_date = Entry(today - 1)
    \/ last_quest_date = Absent

\* the CASE of the UPDATE of users
currentStreakAfter(current_streak, last_quest_date, today) ==
    IF StreakContinues(last_quest_date, today) THEN current_streak + 1
    ELSE IF last_quest_date = Entry(today) THEN current_streak
    ELSE 1

\* createUser: current_streak 0 and last_quest_date ''; the first day.
\* Kept for the properties: completions, the calls made; before, the two
\* columns as the latest call found them; atMidnight, current_streak when
\* the day began
NewUserStreak ==
    [today |-> 1, current_streak |-> 0, last_quest_date |-> Absent,
     completions |-> 0,
     before |-> [current_streak |-> 0, last_quest_date |-> Absent],
     atMidnight |-> 0]

\* completeQuest for a quest of the user: the UPDATE of users
StreakCompleteQuest ==
    /\ userStreak.completions < MaxCompletions
    /\ userStreak' = [userStreak EXCEPT
            !.current_streak = currentStreakAfter(userStreak.current_streak,
                                    userStreak.last_quest_date, userStreak.today),
            !.last_quest_date = Entry(userStreak.today),
            !.completions = @ + 1,
            !.before = [current_streak |-> userStreak.current_streak,
                        last_quest_date |-> userStreak.last_quest_date]]
    /\ UNCHANGED <<appVars, wrapCall, ttsRequests, questApp, hudOverlay>>

\* midnight passes, days times
StreakDaysPass(days) ==
    /\ userStreak.today + days <= MaxDays
    /\ userStreak' = [userStreak EXCEPT !.today = @ + days,
                                        !.atMidnight = userStreak.current_streak]
    /\ UNCHANGED <<appVars, wrapCall, ttsRequests, questApp, hudOverlay>>

StreakNext ==
    \/ StreakCompleteQuest
    \/ \E days \in 1..MaxDays : StreakDaysPass(days)

\* no call of wrapText on its own has been made
NoWrapCall == [text |-> <<>>, maxLineLength |-> 0, lines |-> <<>>]

Init ==
    /\ session = "new"
    /\ userSessionsMap = Absent
    /\ scrollingTextActive = Absent
    /\ userLocationsMap = FALSE
    /\ lastDistanceNotificationMap = Absent
    /\ invocations = <<>>
    /\ display = NoCall
    /\ sinkFailures = 0
    /\ commands = <<>>
    /\ proximity = <<>>
    /\ activeQuests \in {<<>>, <<"active">>}
    /\ user = [total_points |-> 0, quests_completed |-> 0]
    /\ lastTTSTimeMap = Absent
    /\ activeTTSMap = Absent
    /\ tts = <<>>
    /\ wrapCall = NoWrapCall
    /\ ttsRequests = <<>>
    /\ questApp = NewQuestApp
    /\ hudOverlay = NewHudOverlay
    /\ userStreak = NewUserStreak

Next ==
    \/ OnSessionStart
    \/ \E dbOk \in BOOLEAN, throws \in BOOLEAN : OnSessionReady(dbOk, throws)
    \/ Cleanup
    \/ \E kind \in CommandKinds : Transcription(kind)
    \/ \E t \in 1..Len(tts), outcome \in {"success", "failure", "throw"} : SpeakSettles(t, outcome)
    \/ \E t \in 1..Len(tts) : TTSResetTimer(t)
    \/ \E c \in 1..Len(commands), content \in Contents \cup {<<>>}, throws \in BOOLEAN :
            CompleteQuestStep(c, content, throws)
    \/ \E c \in 1..Len(commands) : DistanceCardStep(c)
    \/ \E c \in 1..Len(commands), content \in Contents, throws \in BOOLEAN :
            ChallengesStep(c, content, throws)
    \/ \E i \in 1..Len(invocations), throws \in BOOLEAN : ScrollTimer(i, throws)
    \/ LocationUpdate
    \/ \E p \in 1..Len(proximity) : ProximityStep(p)
    \/ Tick

Spec == Init /\ [][Next]_vars

\* the behaviours in which the user only asks for the challenges and no
\* location update arrives: the scrolls of the welcome card and of the
\* challenge cards, with the sink failing at any call and the session ending
\* at any time.  Nothing here reads the quest row: the user has no quest.
EngineNext ==
    \/ OnSessionStart
    \/ \E dbOk \in BOOLEAN, throws \in BOOLEAN : OnSessionReady(dbOk, throws)
    \/ Cleanup
    \/ Transcription("challenges")
    \/ \E t \in 1..Len(tts), outcome \in {"success", "failure", "throw"} : SpeakSettles(t, outcome)
    \/ \E t \in 1..Len(tts) : TTSResetTimer(t)
    \/ \E c \in 1..Len(commands), content \in Contents, throws \in BOOLEAN :
            ChallengesStep(c, content, throws)
    \/ \E i \in 1..Len(invocations), throws \in BOOLEAN : ScrollTimer(i, throws)
    \/ Tick

EngineInit == Init /\ activeQuests = <<>>

SpecEngine == EngineInit /\ [][EngineNext]_vars

\* the behaviours in which the user asks to complete the quest and for the
\* distance and no location update arrives
VoiceNext ==
    \/ OnSessionStart
    \/ \E dbOk \in BOOLEAN, throws \in BOOLEAN : OnSessionReady(dbOk, throws)
    \/ Cleanup
    \/ \E kind \in {"complete", "distance"} : Transcription(kind)
    \/ \E t \in 1..Len(tts), outcome \in {"success", "failure", "throw"} : SpeakSettles(t, outcome)
    \/ \E t \in 1..Len(tts) : TTSResetTimer(t)
    \/ \E c \in 1..Len(commands), content \in Contents \cup {<<>>}, throws \in BOOLEAN :
            CompleteQuestStep(c, content, throws)
    \/ \E c \in 1..Len(commands) : DistanceCardStep(c)
    \/ \E i \in 1..Len(invocations), throws \in BOOLEAN : ScrollTimer(i, throws)
    \/ Tick

SpecVoice == Init /\ [][VoiceNext]_vars

\* a scroll is between two of its windows
ScrollInFlight == \E i \in 1..Len(invocations) : invocations[i].pc = "sleeping"

\* the behaviours in which the layout calls never throw and the events of
\* the session arrive while the welcome card scrolls: transcriptions asking
\* for the distance card, location updates and the end of the session.
\* Time passes and a timer that is due fires.
LiveNext ==
    \/ OnSessionStart
    \/ OnSessionReady(TRUE, FALSE)
    \/ ScrollInFlight /\ Cleanup
    \/ ScrollInFlight /\ Transcription("distance")
    \/ ScrollInFlight /\ LocationUpdate
    \/ \E p \in 1..Len(proximity) : ProximityStep(p)
    \/ \E i \in 1..Len(invocations) : ScrollTimer(i, FALSE)
    \/ Tick

LiveFairness ==
    /\ WF_vars(Tick)
    /\ WF_vars(\E i \in 1..Len(invocations) : ScrollTimer(i, FALSE))

LiveInit == Init /\ activeQuests = <<"active">>

SpecLive == LiveInit /\ [][LiveNext]_vars /\ LiveFairness

\* the behaviours of the location stream: updates arrive at any time of an
\* open session, each starting a checkQuestProximity call that runs
\* alongside the earlier ones; the user has an active quest
LocationNext ==
    \/ OnSessionStart
    \/ OnSessionReady(FALSE, FALSE)
    \/ Cleanup
    \/ Len(proximity) < MaxLocationUpdates /\ LocationArrives
    \/ \E p \in 1..Len(proximity) : ProximityStep(p)
    \/ Pass(ClockStepMs)

LocationInit == Init /\ activeQuests = <<"active">>

SpecLocation == LocationInit /\ [][LocationNext]_vars

\* the behaviours in which no layout call throws and the user asks only for
\* the distance card: the welcome scroll, the distance card with its TTS,
\* the location updates with their proximity checks, and the cleanup
FrameNext ==
    \/ OnSessionStart
    \/ \E dbOk \in BOOLEAN : OnSessionReady(dbOk, FALSE)
    \/ Cleanup
    \/ Transcription("distance")
    \/ \E t \in 1..Len(tts), outcome \in {"success", "failure"} : SpeakSettles(t, outcome)
    \/ \E t \in 1..Len(tts) : TTSResetTimer(t)
    \/ \E c \in 1..Len(commands) : DistanceCardStep(c)
    \/ \E i \in 1..Len(invocations) : ScrollTimer(i, FALSE)
    \/ LocationUpdate
    \/ \E p \in 1..Len(proximity) : ProximityStep(p)
    \/ Tick

FrameInit == Init /\ activeQuests = <<"active">>

SpecFrame == FrameInit /\ [][FrameNext]_vars

\* the behaviours in which no layout call throws, the session starts with
\* the offline notice, and the user asks for the distance card and for the
\* challenges while location updates arrive
RaceNext ==
    \/ OnSessionStart
    \/ OnSessionReady(FALSE, FALSE)
    \/ \E kind \in {"distance", "challenges"} : Transcription(kind)
    \/ \E t \in 1..Len(tts) : SpeakSettles(t, "success")
    \/ \E t \in 1..Len(tts) : TTSResetTimer(t)
    \/ \E c \in 1..Len(commands) : DistanceCardStep(c)
    \/ \E c \in 1..Len(commands) : ChallengesStep(c, LongText, FALSE)
    \/ \E i \in 1..Len(invocations) : ScrollTimer(i, FALSE)
    \/ LocationUpdate
    \/ \E p \in 1..Len(proximity) : ProximityStep(p)
    \/ Tick

RaceInit == Init /\ activeQuests = <<"active">>

SpecRace == RaceInit /\ [][RaceNext]_vars

\* the behaviours in which the user asks for a new quest and for a
\* different quest, each command being handled while the earlier ones await
\* their database calls, their TTS or their quest card; the session starts
\* with the offline notice and no layout call throws
QuestCommandKinds == {"new", "reroll"}

QuestFlowNext ==
    \/ OnSessionStart
    \/ OnSessionReady(FALSE, FALSE)
    \/ \E kind \in QuestCommandKinds : Transcription(kind)
    \/ \E t \in 1..Len(tts) : SpeakSettles(t, "success")
    \/ \E t \in 1..Len(tts) : TTSResetTimer(t)
    \/ \E c \in 1..Len(commands), ok \in BOOLEAN : NewQuestStep(c, ok, FALSE)
    \/ \E c \in 1..Len(commands), ok \in BOOLEAN : RerollStep(c, ok, FALSE)
    \/ \E i \in 1..Len(invocations) : ScrollTimer(i, FALSE)
    \/ Tick

SpecQuestFlow == Init /\ [][QuestFlowNext]_vars

\* ------------------------------------------------------------------------
\* playTTSWithDebounce called on its own, with and without forcePlay, at any
\* time: before the session is registered and while earlier speak calls are
\* in progress.  Kept of each call: active, the user's activeTTSMap entry is
\* true; recent, the user's last TTS was started at most 2000 ms ago;
\* overlaps, a speak call is in progress; speaks, the speak calls it made;
\* marked, it left the flag set and the timestamp at now; kept, it left both
\* maps as they were
SpeaksInProgress == Cardinality({t \in 1..Len(tts) : tts[t].pc = "speaking"})

TTSRequest(forcePlay) ==
    /\ Len(ttsRequests) < MaxTTSRequests
    /\ playTTSWithDebounce(TheSession, forcePlay, 0)
    /\ ttsRequests' = Append(ttsRequests,
            [forcePlay |-> forcePlay,
             userId |-> FindUserId(TheSession),
             active |-> TRUE \in activeTTSMap,
             recent |-> \E age \in lastTTSTimeMap : age <= TTSDebounceDelay,
             overlaps |-> SpeaksInProgress > 0,
             speaks |-> Len(tts') - Len(tts),
             marked |-> activeTTSMap' = Entry(TRUE) /\ lastTTSTimeMap' = Entry(0),
             kept |-> activeTTSMap' = activeTTSMap /\ lastTTSTimeMap' = lastTTSTimeMap])
    /\ UNCHANGED <<wrapCall, questApp, hudOverlay, userStreak, session, userSessionsMap, scrollingTextActive,
                   userLocationsMap, lastDistanceNotificationMap, invocations, display,
                   sinkFailures, commands, proximity, activeQuests, user>>

TTSNext ==
    \/ OnSessionStart
    \/ \E forcePlay \in BOOLEAN : TTSRequest(forcePlay)
    \/ \E t \in 1..Len(tts), outcome \in {"success", "failure", "throw"} : SpeakSettles(t, outcome)
    \/ \E t \in 1..Len(tts) : TTSResetTimer(t)
    \/ Pass(ClockStepMs)

TTSInit == Init /\ activeQuests = <<>>

SpecTTS == TTSInit /\ [][TTSNext]_vars

\* the requests that are played, in a session that goes through its whole
\* life, with time passing and a timer that is due firing; a request that
\* is skipped changes nothing, and a speak call may stay in progress for ever
TTSPlayedRequest(forcePlay) ==
    /\ Len(tts) < MaxTTSRequests
    /\ TTSPlays(TheSession, forcePlay)
    /\ playTTSWithDebounce(TheSession, forcePlay, 0)
    /\ UNCHANGED <<unitVars, session, userSessionsMap, scrollingTextActive,
                   userLocationsMap, lastDistanceNotificationMap, invocations, display,
                   sinkFailures, commands, proximity, activeQuests, user>>

TTSLiveNext ==
    \/ OnSessionStart
    \/ OnSessionReady(FALSE, FALSE)
    \/ Cleanup
    \/ \E forcePlay \in BOOLEAN : TTSPlayedRequest(forcePlay)
    \/ \E t \in 1..Len(tts), outcome \in {"success", "failure", "throw"} : SpeakSettles(t, outcome)
    \/ \E t \in 1..Len(tts) : TTSResetTimer(t)
    \/ Pass(ClockStepMs)

TTSLiveFairness ==
    /\ WF_vars(Pass(ClockStepMs))
    /\ WF_vars(\E t \in 1..Len(tts) : TTSResetTimer(t))

SpecTTSLive == TTSInit /\ [][TTSLiveNext]_vars /\ TTSLiveFairness

\* ------------------------------------------------------------------------
\* displayScrollingText called on its own, with any content and any
\* maxLinesPerScreen, at most MaxInvocations times in all
DirectContents == {EmptyContent, LongText}

MaxLinesChoices == {-1, 0, DefaultMaxLinesPerScreen}

DirectCall(content, maxLinesPerScreen, throws) ==
    /\ Len(invocations) < MaxInvocations
    /\ displayScrollingText(TheSession, content, maxLinesPerScreen,
            DefaultScrollDelay, 0, FALSE, throws, <<>>)
    /\ UNCHANGED <<unitVars, session, userSessionsMap, userLocationsMap,
                   lastDistanceNotificationMap, commands, proximity, activeQuests, user,
                   lastTTSTimeMap, activeTTSMap, tts>>

DirectNext ==
    \/ OnSessionStart
    \/ \E content \in DirectContents, maxLinesPerScreen \in MaxLinesChoices,
          throws \in BOOLEAN : DirectCall(content, maxLinesPerScreen, throws)
    \/ \E i \in 1..Len(invocations), throws \in BOOLEAN : ScrollTimer(i, throws)
    \/ Tick

DirectInit == Init /\ activeQuests = <<>>

SpecDirect == DirectInit /\ [][DirectNext]_vars

\* ------------------------------------------------------------------------
\* wrapText on its own: the texts of at most MaxTextLength characters over
\* two letters, the space and the line break, and the line lengths up to
\* MaxWrapWidth
Alphabet == {"a", "b", SP, NL}

Texts == UNION {[1..n -> Alphabet] : n \in 0..MaxTextLength}

WrapCall(text, maxLineLength) ==
    /\ wrapCall = NoWrapCall
    /\ wrapCall' = [text |-> text, maxLineLength |-> maxLineLength,
                    lines |-> wrapText(text, maxLineLength)]
    /\ UNCHANGED <<appVars, ttsRequests, questApp, hudOverlay, userStreak>>

WrapNext == \E text \in Texts, maxLineLength \in 1..MaxWrapWidth : WrapCall(text, maxLineLength)

WrapInit == Init /\ activeQuests = <<>>

SpecWrap == WrapInit /\ [][WrapNext]_vars

\* ------------------------------------------------------------------------
\* the QuestApp prototype on its own
QuestInit == Init /\ activeQuests = <<>>

SpecQuest == QuestInit /\ [][QuestNext]_vars

\* ------------------------------------------------------------------------
\* the variant with periodic distance updates on its own
HudInit == Init /\ activeQuests = <<>>

SpecHud == HudInit /\ [][HudNext]_vars

\* the behaviours in which the user, who has an active quest, asks to
\* complete it and asks for a different quest, each command being handled
\* while the earlier ones await their database calls, their TTS or their
\* card; the session starts with the offline notice and no layout call
\* throws
CompletionCommandKinds == {"complete", "reroll"}

CompletionNext ==
    \/ OnSessionStart
    \/ OnSessionReady(FALSE, FALSE)
    \/ \E kind \in CompletionCommandKinds : Transcription(kind)
    \/ \E t \in 1..Len(tts) : SpeakSettles(t, "success")
    \/ \E t \in 1..Len(tts) : TTSResetTimer(t)
    \/ \E c \in 1..Len(commands), content \in ScrollingContents \cup {<<>>} :
            CompleteQuestStep(c, content, FALSE)
    \/ \E c \in 1..Len(commands), ok \in BOOLEAN : RerollStep(c, ok, FALSE)
    \/ \E i \in 1..Len(invocations) : ScrollTimer(i, FALSE)
    \/ Tick

CompletionInit == Init /\ activeQuests = <<"active">>

SpecCompletion == CompletionInit /\ [][CompletionNext]_vars

\* ------------------------------------------------------------------------
\* completeQuest over the days on its own
StreakInit == Init /\ activeQuests = <<>>

SpecStreak == StreakInit /\ [][StreakNext]_vars

\* ------------------------------------------------------------------------
\* Properties

\* C1: while the session is open and no layout call has thrown, the user's
\* flag is true exactly while some scrolling-path invocation is between
\* the render of its first window and the render of its last window, also
\* when two such invocations overlap
C1_FlagTrueExactlyWhileScrolling ==
    (session = "open" /\ sinkFailures = 0) =>
        (ScrollingActive <=>
            \E i \in 1..Len(invocations) : invocations[i].pc = "sleeping")

\* C2: in the step in which the promise of a scrolling-path invocation
\* settles, resolved or rejected, the user's flag is not left true
C2_FlagFalseAfterSettle ==
    [][\A i \in 1..Len(invocations') :
        LET c == invocations'[i]
        IN  ( /\ Len(c.lines) > c.maxLinesPerScreen
              /\ c.pc \in {"resolved", "rejected"}
              /\ (i > Len(invocations) \/ invocations[i].pc = "sleeping") )
            => TRUE \notin scrollingTextActive']_vars

\* C3: checkQuestProximity never writes to the display in a step that
\* begins with the user's flag true
C3_ProximitySkipsWhileScrolling ==
    [][\A p \in 1..Len(proximity) :
        proximity'[p].writes > proximity[p].writes => ~ScrollingActive]_vars

\* C4: a final transcription, or a showDistanceCardForUser call, that
\* begins while the user's flag is true writes nothing to the display,
\* starts no TTS and no scroll, leaves the quest and the user row as they
\* are, and is never taken up again
C4_DroppedWhileScrolling ==
    [][ /\ (Len(commands') > Len(commands) /\ ScrollingActive) =>
            /\ commands'[Len(commands')].pc = "dropped"
            /\ UNCHANGED <<display, tts, lastTTSTimeMap, activeTTSMap,
                           invocations, activeQuests, user>>
        /\ \A c \in 1..Len(commands) :
            ( /\ commands[c].kind = "distance"
              /\ commands[c].pc = "tts"
              /\ commands'[c].pc # "tts"
              /\ ScrollingActive ) =>
                /\ commands'[c].pc = "done"
                /\ commands'[c].card = "dropped"
                /\ commands'[c].writes = commands[c].writes
                /\ Len(tts') = Len(tts)
                /\ UNCHANGED <<display, invocations, activeQuests, user>>
        /\ \A c \in 1..Len(commands) :
            (commands[c].pc = "dropped" \/ commands[c].card = "dropped") =>
                commands'[c] = commands[c] ]_vars

C4_CardDropped ==
    \E c \in 1..Len(commands) :
        /\ commands[c].card = "dropped"
        /\ \E d \in 1..Len(commands) : commands[d].pc = "done" /\ commands[d].kind = "complete"

\* C5: the renders of a scrolling-path invocation are for the positions
\* 0, 1, 2, ... in this order, the k-th showing the lines k to
\* k + maxLinesPerScreen - 1 (counted from 0) joined by line breaks; none
\* is repeated or skipped, and a resolved invocation has rendered all of
\* the lineCount - maxLinesPerScreen + 1 positions
C5_RendersInOrder ==
    \A i \in 1..Len(invocations) :
        LET c == invocations[i]
            total == Len(c.lines) - c.maxLinesPerScreen + 1
        IN  Len(c.lines) > c.maxLinesPerScreen =>
                /\ Len(c.renders) \in 1..total
                /\ \A k \in 1..Len(c.renders) :
                        /\ c.renders[k].inv = i
                        /\ c.renders[k].pos = k - 1
                        /\ c.renders[k].body =
                                JoinLines(SubSeq(c.lines, k, k + c.maxLinesPerScreen - 1))
                /\ c.pc = "sleeping" => c.position = Len(c.renders)
                /\ c.pc = "resolved" => Len(c.renders) = total

C5_SeveralWindowsRendered ==
    \E i \in 1..Len(invocations) :
        /\ invocations[i].pc = "resolved"
        /\ Len(invocations[i].renders) >= 3
        /\ \E c \in 1..Len(commands) : commands[c].pc = "dropped"

\* C6: an invocation that has returned normally has made exactly
\* lineCount - maxLinesPerScreen + 1 render calls, each of exactly
\* maxLinesPerScreen lines, when lineCount > maxLinesPerScreen, and exactly
\* one render call otherwise
C6_RenderCount ==
    \A i \in 1..Len(invocations) :
        LET c == invocations[i]
            lineCount == Len(c.lines)
        IN  c.pc = "resolved" =>
                IF lineCount > c.maxLinesPerScreen
                THEN /\ Len(c.renders) = lineCount - c.maxLinesPerScreen + 1
                     /\ \A k \in 1..Len(c.renders) :
                            \E from \in 1..(lineCount - c.maxLinesPerScreen + 1) :
                                LET window == SubSeq(c.lines, from, from + c.maxLinesPerScreen - 1)
                                IN  /\ Len(window) = c.maxLinesPerScreen
                                    /\ c.renders[k].body = JoinLines(window)
                ELSE Len(c.renders) = 1

C6_BothPathsReturned ==
    /\ \E i \in 1..Len(invocations) :
            /\ invocations[i].pc = "resolved"
            /\ Len(invocations[i].lines) > invocations[i].maxLinesPerScreen
    /\ \E i \in 1..Len(invocations) :
            /\ invocations[i].pc = "resolved"
            /\ Len(invocations[i].lines) <= invocations[i].maxLinesPerScreen

\* C7: on the scrolling path the render of the last position has
\* durationMs = scrollDelay * 4 and every other render, the first included,
\* has durationMs = scrollDelay * 1.5
C7_Durations ==
    \A i \in 1..Len(invocations) :
        LET c == invocations[i]
            total == Len(c.lines) - c.maxLinesPerScreen + 1
        IN  Len(c.lines) > c.maxLinesPerScreen =>
                \A k \in 1..Len(c.renders) :
                    IF k = total
                    THEN c.renders[k].durationMs = c.scrollDelay * 4
                    ELSE 2 * c.renders[k].durationMs = 3 * c.scrollDelay

C7_TwoWindowsRendered ==
    \E i \in 1..Len(invocations) :
        /\ invocations[i].pc = "resolved"
        /\ Len(invocations[i].lines) = invocations[i].maxLinesPerScreen + 1
        /\ Len(invocations[i].renders) = 2

\* C8 as stated: when the promise of a scrolling-path invocation has
\* resolved, every window has been rendered and the scrollDelay * 4 of the
\* last window have passed since its render
C8_SettlesAfterLastDwell ==
    \A i \in 1..Len(invocations) :
        LET c == invocations[i]
        IN  (Len(c.lines) > c.maxLinesPerScreen /\ c.pc = "resolved") =>
                /\ Len(c.renders) = Len(c.lines) - c.maxLinesPerScreen + 1
                /\ c.slept - c.renderedAt >= c.scrollDelay * 4

\* C8 amended: when the promise of a scrolling-path invocation has
\* resolved, every window has been rendered, each window but the last was
\* followed by a suspension of scrollDelay, and the promise resolved in
\* the turn of the last render; when it has rejected, its latest render
\* call threw
C8_SettlesWithLastRender ==
    \A i \in 1..Len(invocations) :
        LET c == invocations[i]
            total == Len(c.lines) - c.maxLinesPerScreen + 1
        IN  Len(c.lines) > c.maxLinesPerScreen =>
                /\ c.pc = "resolved" =>
                        /\ Len(c.renders) = total
                        /\ c.suspensions = total - 1
                        /\ c.slept = (total - 1) * c.scrollDelay
                        /\ c.renderedAt = c.slept
                /\ c.pc = "rejected" => ~c.renders[Len(c.renders)].ok

C8_AwaitedScrollResolved ==
    \E i \in 1..Len(invocations) :
        /\ invocations[i].pc = "resolved"
        /\ Len(invocations[i].lines) > invocations[i].maxLinesPerScreen
        /\ invocations[i].awaited
        /\ commands[invocations[i].by].pc = "done"

\* C9: an invocation whose content wraps to at most maxLinesPerScreen
\* lines makes exactly one render call, with durationMs = -1, and returns
\* in the turn of the call, without a suspension
C9_FastPath ==
    \A i \in 1..Len(invocations) :
        LET c == invocations[i]
        IN  Len(c.lines) <= c.maxLinesPerScreen =>
                /\ Len(c.renders) = 1
                /\ c.renders[1].durationMs = -1
                /\ c.pc \in {"resolved", "rejected"}
                /\ c.suspensions = 0
                /\ c.slept = 0

C9_FastPathTaken ==
    \E i \in 1..Len(invocations) :
        /\ Len(invocations[i].lines) = invocations[i].maxLinesPerScreen
        /\ invocations[i].pc = "resolved"
        /\ display = invocations[i].renders[1]

\* C10: an invocation whose content wraps to at most maxLinesPerScreen
\* lines makes no write to scrollingTextActive: the user's entry when the
\* call returns is the entry found when it began
C10_FastPathLeavesFlag ==
    \A i \in 1..Len(invocations) :
        LET c == invocations[i]
        IN  Len(c.lines) <= c.maxLinesPerScreen =>
                /\ c.flagWrites = 0
                /\ c.flagAtReturn = c.flagAtCall

C10_FastPathDuringScroll ==
    \E i \in 1..Len(invocations) :
        /\ Len(invocations[i].lines) <= invocations[i].maxLinesPerScreen
        /\ invocations[i].flagAtCall = {TRUE}
        /\ invocations[i].flagAtReturn = {TRUE}

\* C11: every line wrapText returns is no longer than maxLineLength or is
\* one word that is longer; every word of a line is a whole word of the
\* input
C11_LinesWithinBudget ==
    LET paragraphs == Split(wrapCall.text, NL)
        inputWords == UNION {{Split(paragraphs[p], SP)[w] :
                                w \in 1..Len(Split(paragraphs[p], SP))} :
                                p \in 1..Len(paragraphs)}
    IN  \A i \in 1..Len(wrapCall.lines) :
            LET line == wrapCall.lines[i]
                words == Split(line, SP)
            IN  /\ \/ Len(line) <= wrapCall.maxLineLength
                   \/ Len(words) = 1 /\ Len(line) > wrapCall.maxLineLength
                /\ \A w \in 1..Len(words) : words[w] \in inputWords
                /\ \A c \in 1..Len(line) : line[c] # NL

C11_LongWordKept ==
    /\ Len(wrapCall.lines) >= 2
    /\ \E i \in 1..Len(wrapCall.lines) :
            Len(wrapCall.lines[i]) > wrapCall.maxLineLength
    /\ \E i \in 1..Len(wrapCall.lines) :
            /\ wrapCall.lines[i] # <<>>
            /\ Len(wrapCall.lines[i]) <= wrapCall.maxLineLength

\* C12: the non-empty words of the lines wrapText returns, read in order,
\* are the non-empty words of the input read paragraph by paragraph; the
\* words of one line all come from one paragraph, and a paragraph without
\* words gives one empty line
C12_WordsPreserved ==
    LET NonEmpty(w) == w # <<>>
        WordsIn(str) == SelectSeq(Split(str, SP), NonEmpty)
        paragraphs == Split(wrapCall.text, NL)
        lines == wrapCall.lines
        \* the number of words in the first n strings of strs
        Before(strs, n) ==
            LET count[k \in 0..n] ==
                    IF k = 0 THEN 0 ELSE count[k - 1] + Len(WordsIn(strs[k]))
            IN  count[n]
        \* the words of all strings of strs
        All(strs) ==
            LET acc[k \in 0..Len(strs)] ==
                    IF k = 0 THEN <<>> ELSE acc[k - 1] \o WordsIn(strs[k])
            IN  acc[Len(strs)]
    IN  wrapCall # NoWrapCall =>
            /\ All(lines) = All(paragraphs)
            /\ \A i \in 1..Len(lines) :
                    WordsIn(lines[i]) # <<>> =>
                        \E p \in 1..Len(paragraphs) :
                            /\ Before(paragraphs, p - 1) <= Before(lines, i - 1)
                            /\ Before(lines, i) <= Before(paragraphs, p)
            /\ Cardinality({i \in 1..Len(lines) : lines[i] = <<>>})
                    = Cardinality({p \in 1..Len(paragraphs) :
                                        WordsIn(paragraphs[p]) = <<>>})

C12_ParagraphsWrapped ==
    /\ Len(Split(wrapCall.text, NL)) = 2
    /\ Len(wrapCall.lines) = 3
    /\ \A i \in 1..3 : wrapCall.lines[i] # <<>>

\* C13: a call of displayScrollingText with the empty string as content
\* (and maxLinesPerScreen of at least 1) wraps it to exactly one empty
\* line, makes one render call with durationMs = -1, writes no flag, and
\* resolves in the turn of the call unless the sink throws
C13_EmptyContentFastPath ==
    \A i \in 1..Len(invocations) :
        LET c == invocations[i]
        IN  (c.content = "" /\ c.maxLinesPerScreen >= 1) =>
                /\ c.lines = <<"">>
                /\ Len(c.renders) = 1
                /\ c.renders[1].body = ""
                /\ c.renders[1].durationMs = -1
                /\ c.flagWrites = 0
                /\ c.flagAtReturn = c.flagAtCall
                /\ c.suspensions = 0
                /\ c.pc = IF c.renders[1].ok THEN "resolved" ELSE "rejected"

C13_EmptyContentShown ==
    \E i \in 1..Len(invocations) :
        /\ invocations[i].content = ""
        /\ invocations[i].maxLinesPerScreen >= 1
        /\ invocations[i].pc = "resolved"
        /\ display = invocations[i].renders[1]
        /\ ScrollingActive

\* C14: a call of displayScrollingText with maxLinesPerScreen <= 0 is
\* rejected before any render call and before the flag is written
C14_FailsFastOnBadMaxLines ==
    \A i \in 1..Len(invocations) :
        LET c == invocations[i]
        IN  c.maxLinesPerScreen <= 0 =>
                /\ c.pc = "rejected"
                /\ c.renders = <<>>
                /\ c.flagWrites = 0

\* C15: the windows of an invocation are attempted once each, in order; a
\* render call that throws is the last call the invocation makes, the
\* promise is rejected, and a caller that awaits it sees the error
C15_NoRetryAfterThrow ==
    \A i \in 1..Len(invocations) :
        LET c == invocations[i]
            n == Len(c.renders)
        IN  /\ \A k \in 1..n : c.renders[k].pos = k - 1
            /\ \A k \in 1..(n - 1) : c.renders[k].ok
            /\ (n > 0 /\ ~c.renders[n].ok) => c.pc = "rejected"
            /\ (c.pc = "rejected" /\ c.awaited) =>
                    /\ commands[c.by].pc = "done"
                    /\ commands[c.by].writes = 1

C15_ThrowAtLaterWindow ==
    \E i \in 1..Len(invocations) :
        /\ invocations[i].pc = "rejected"
        /\ invocations[i].awaited
        /\ Len(invocations[i].renders) = 2
        /\ ~invocations[i].renders[2].ok
        /\ display.src = "voice"

\* C16: a call of displayScrollingText that took the scrolling path
\* (maxLinesPerScreen >= 1, no layout call throwing) eventually has rendered
\* each of its lines.length - maxLinesPerScreen + 1 windows once and has
\* resolved, whatever voice commands, distance-card requests, location
\* updates or session cleanup arrive meanwhile
C16_ScrollCompletes ==
    (\E i \in 1..Len(invocations) : invocations[i].pc = "sleeping")
        ~> \A i \in 1..Len(invocations) :
                Len(invocations[i].lines) > invocations[i].maxLinesPerScreen =>
                    /\ invocations[i].pc = "resolved"
                    /\ Len(invocations[i].renders) =
                            Len(invocations[i].lines) - invocations[i].maxLinesPerScreen + 1

\* a scroll has completed after the session was cleaned up while it slept,
\* a command was dropped and a proximity check ran
C16_CompletedAfterCleanup ==
    \E i \in 1..Len(invocations) :
        /\ invocations[i].pc = "resolved"
        /\ Len(invocations[i].renders) > 1
        /\ invocations[i].maxLinesPerScreen >= 1
        /\ session = "closed"
        /\ scrollingTextActive = Entry(FALSE)
        /\ \E c \in 1..Len(commands) : commands[c].pc = "dropped"
        /\ \E p \in 1..Len(proximity) : proximity[p].pc = "done"
\* C17: any two proximity notifications written to the display by
\* checkQuestProximity are more than 6000 ms apart, however the calls started
\* by successive location updates interleave
C17_NotificationsApart ==
    \A p \in 1..Len(proximity) :
        proximity[p].writes = 1 =>
            \A ago \in proximity[p].since : ago > DistanceNotificationInterval

\* two calls that ran side by side: the one started first wrote the later
\* notification
C17_TwoNotifications ==
    \E p, q \in 1..Len(proximity) :
        /\ p < q
        /\ proximity[p].writes = 1 /\ proximity[q].writes = 1
        /\ proximity[q].ago \in proximity[p].since
\* C18: a request without forcePlay never starts a speak call while an
\* earlier speak call of the user is still in progress, however forced and
\* non-forced requests interleave
C18_NoOverlappingSpeak ==
    \A r \in 1..Len(ttsRequests) :
        (~ttsRequests[r].forcePlay /\ ttsRequests[r].speaks > 0) =>
            ~ttsRequests[r].overlaps

RECURSIVE SumRewards(_)
SumRewards(done) ==
    IF done = {} THEN 0
    ELSE LET q == CHOOSE x \in done : TRUE
         IN  SampleQuests[q].reward + SumRewards(done \ {q})

QuestsCompleted == {q \in QuestIds : questApp.completed[q] # ""}

ScrollWritesFlag ==
    \/ /\ Len(invocations') = Len(invocations) + 1
       /\ invocations'[Len(invocations')].flagWrites = 1
       /\ scrollingTextActive' = Entry(TRUE)
    \/ \E i \in 1..Len(invocations) :
            /\ invocations'[i].flagWrites = invocations[i].flagWrites + 1
            /\ invocations'[i].pc = "resolved"
            /\ Len(invocations'[i].renders) =
                    TotalScrollPositions(invocations[i].lines, invocations[i].maxLinesPerScreen)
            /\ scrollingTextActive' = Entry(FALSE)

\* C21 as stated: scrollingTextActive changes only in a step of
\* displayScrollingText (to true at the start, to false after the last
\* window); voice commands, the distance card, the proximity check, TTS and
\* the cleanup handler leave it unchanged
C21_OnlyScrollWritesFlag ==
    [][scrollingTextActive' # scrollingTextActive => ScrollWritesFlag]_vars

\* C21 amended: scrollingTextActive changes only in a step of
\* displayScrollingText (to true at the start, to false after the last
\* window) or when the cleanup handler deletes the user's entry; voice
\* commands, the distance card, the proximity check and TTS leave it unchanged
C21_OnlyScrollAndCleanupWriteFlag ==
    [][scrollingTextActive' # scrollingTextActive =>
            \/ ScrollWritesFlag
            \/ /\ session = "open" /\ session' = "closed"
               /\ scrollingTextActive' = Absent]_vars

\* the flag has been set and cleared by a scroll and its entry deleted by the
\* cleanup, after a distance card, a TTS and a proximity check ran
C21_FlagWrittenAndDeleted ==
    /\ session = "closed"
    /\ scrollingTextActive = Absent
    /\ \E i \in 1..Len(invocations) : invocations[i].flagWrites = 2
    /\ \E c \in 1..Len(commands) : commands[c].card = "shown"
    /\ \E p \in 1..Len(proximity) : proximity[p].writes = 1
    /\ Len(tts) > 0
\* C22: an invocation of displayScrollingText for a registered session that
\* takes the scrolling path has set the flag to true and rendered window 0
\* when its synchronous first part ends, without having been suspended
\* before (also when that render throws); it writes the flag a second time,
\* to false, only once its last window has been rendered
C22_FlagSetBeforeFirstWindow ==
    \A i \in 1..Len(invocations) :
        LET c == invocations[i]
            total == TotalScrollPositions(c.lines, c.maxLinesPerScreen)
        IN  (c.userId /\ ~FitsOneScreen(c.lines, c.maxLinesPerScreen)) =>
                /\ c.flagAtReturn = Entry(TRUE)
                /\ Len(c.renders) >= 1 /\ c.renders[1].pos = 0
                /\ Len(c.renders) = 1 => c.renderedAt = 0
                /\ c.suspensions >= 1 => c.renders[1].ok
                /\ c.flagWrites \in {1, 2}
                /\ c.flagWrites = 2 =>
                        /\ c.pc = "resolved"
                        /\ Len(c.renders) = total
                        /\ c.renders[total].pos = total - 1 /\ c.renders[total].ok

\* a scroll found the flag not set, set it and cleared it after its last
\* window, and another was rejected by its first render with the flag set
C22_SetThenCleared ==
    /\ \E i \in 1..Len(invocations) :
            /\ invocations[i].userId /\ invocations[i].flagWrites = 2
            /\ TRUE \notin invocations[i].flagAtCall
            /\ Len(invocations[i].renders) > 1
    /\ \E i \in 1..Len(invocations) :
            /\ invocations[i].pc = "rejected" /\ Len(invocations[i].renders) = 1
            /\ invocations[i].flagAtReturn = Entry(TRUE)
\* C23: a scrolling-path invocation is suspended once after each window it
\* has rendered except the last, each time for scrollDelay: while it waits
\* it has been suspended as often as it has rendered, and once resolved it
\* has rendered totalScrollPositions windows, has been suspended
\* totalScrollPositions - 1 times and has spent that many scrollDelay
\* suspended; a render that throws is followed by no suspension
C23_SuspensionsBetweenWindows ==
    \A i \in 1..Len(invocations) :
        LET c == invocations[i]
            total == TotalScrollPositions(c.lines, c.maxLinesPerScreen)
        IN  IF FitsOneScreen(c.lines, c.maxLinesPerScreen)
            THEN c.suspensions = 0 /\ c.slept = 0
            ELSE /\ c.pc = "sleeping" =>
                        /\ c.suspensions = Len(c.renders)
                        /\ c.suspensions <= total - 1
                        /\ c.slept = c.suspensions * c.scrollDelay - c.wait
                 /\ c.pc = "resolved" =>
                        /\ Len(c.renders) = total
                        /\ c.suspensions = total - 1
                        /\ c.slept = (total - 1) * c.scrollDelay
                 /\ c.pc = "rejected" =>
                        /\ c.suspensions = Len(c.renders) - 1
                        /\ c.slept = c.suspensions * c.scrollDelay

\* the welcome card has scrolled through its seven windows with six
\* suspensions, and a card of two windows with one
C23_ScrolledThrough ==
    /\ \E i \in 1..Len(invocations) :
            /\ invocations[i].pc = "resolved" /\ invocations[i].suspensions = 6
            /\ Len(invocations[i].renders) = 7
    /\ \E i \in 1..Len(invocations) :
            /\ invocations[i].pc = "resolved" /\ invocations[i].suspensions = 1
            /\ Len(invocations[i].renders) = 2
\* C24: the flag is read by showDistanceCardForUser once, when it begins,
\* and it goes on to its database reads only if the flag is not true then;
\* nothing reads the flag again before the card is written, so the state
\* C24_CardBetweenWindows is reached: a scroll that started after the check
\* is between two of its windows and the distance card is on the display
C24_CardCheckedOnlyAtBegin ==
    [][\A c \in 1..Len(commands') :
            (/\ commands'[c].pc = "card_getQuest"
             /\ (c > Len(commands) \/ commands[c].pc # "card_getQuest"))
                => ~ScrollingActive]_vars

\* the only scroll of the session is between two windows, the flag has been
\* true since it started, and the display shows the distance card of a
\* command whose check, passed with the flag false, came before
C24_CardBetweenWindows ==
    /\ session = "open"
    /\ Len(invocations) = 1
    /\ invocations[1].pc = "sleeping"
    /\ Len(invocations[1].renders) >= 1
    /\ TRUE \notin invocations[1].flagAtCall
    /\ ScrollingActive
    /\ display.src = "distance"
    /\ commands[display.cmd].card = "shown"

\* the words of a string, and the number of words in the first n strings
WordsOf(str) == SelectSeq(Split(str, SP), LAMBDA w : w # <<>>)

WordsBefore(strs, n) ==
    LET count[k \in 0..n] == IF k = 0 THEN 0 ELSE count[k - 1] + Len(WordsOf(strs[k]))
    IN  count[n]

\* lines i and i + 1 of the result hold words of one paragraph of the input
SameParagraph(i) ==
    LET paragraphs == Split(wrapCall.text, NL)
        lines == wrapCall.lines
    IN  /\ lines[i] # <<>> /\ lines[i + 1] # <<>>
        /\ \E p \in 1..Len(paragraphs) :
                /\ WordsBefore(paragraphs, p - 1) <= WordsBefore(lines, i - 1)
                /\ WordsBefore(lines, i + 1) <= WordsBefore(paragraphs, p)

\* C26: wrapText fills its lines greedily: a line followed by a line of the
\* same paragraph, joined by a space with the first word of that next line,
\* is longer than maxLineLength
C26_GreedyLines ==
    \A i \in 1..(Len(wrapCall.lines) - 1) :
        SameParagraph(i) =>
            Len(wrapCall.lines[i] \o <<SP>> \o Head(WordsOf(wrapCall.lines[i + 1])))
                > wrapCall.maxLineLength

\* a line of two words filled to maxLineLength is followed by a line of
\* the same paragraph
C26_FullLineThenNext ==
    \E i \in 1..(Len(wrapCall.lines) - 1) :
        /\ SameParagraph(i)
        /\ Len(WordsOf(wrapCall.lines[i])) = 2
        /\ Len(wrapCall.lines[i]) = wrapCall.maxLineLength

\* the places of the empty strings of strs for which Blank holds, in order
Places(strs, Blank(_)) ==
    LET found[k \in 0..Len(strs)] ==
            IF k = 0 THEN <<>>
            ELSE IF Blank(strs[k]) THEN Append(found[k - 1], k) ELSE found[k - 1]
    IN  found[Len(strs)]

\* C27: wrapText returns one empty line for each paragraph that is empty or
\* holds only whitespace, in the place of that paragraph among the words,
\* and no other empty line: there are as many empty lines as such
\* paragraphs
C27_EmptyLinePerBlankParagraph ==
    LET paragraphs == Split(wrapCall.text, NL)
        lines == wrapCall.lines
        blanks == Places(paragraphs, TrimIsEmpty)
        empties == Places(lines, LAMBDA line : line = <<>>)
    IN  wrapCall # NoWrapCall =>
            /\ Len(empties) = Len(blanks)
            /\ \A k \in 1..Len(empties) :
                    WordsBefore(lines, empties[k]) = WordsBefore(paragraphs, blanks[k])

\* a paragraph of one space between two paragraphs of words has given the
\* one empty line between their lines
C27_BlankBetweenWords ==
    LET paragraphs == Split(wrapCall.text, NL)
    IN  /\ Len(paragraphs) = 3
        /\ paragraphs[2] = <<SP>>
        /\ Len(wrapCall.lines) = 3
        /\ wrapCall.lines[1] # <<>>
        /\ wrapCall.lines[2] = <<>>
        /\ wrapCall.lines[3] # <<>>

\* C28: on the scrolling path the first window starts at line 0, each
\* window starts one line after the one before it and shows the
\* maxLinesPerScreen lines from its start; once the invocation has resolved
\* the last window ends at the last line and every wrapped line has been
\* shown in some window
C28_WindowsCoverLines ==
    \A i \in 1..Len(invocations) :
        LET c == invocations[i]
            n == Len(c.renders)
            lineCount == Len(c.lines)
            \* the lines, counted from 0, that the k-th window shows
            Window(k) == c.renders[k].pos..(c.renders[k].pos + c.maxLinesPerScreen - 1)
        IN  lineCount > c.maxLinesPerScreen =>
                /\ c.renders[1].pos = 0
                /\ \A k \in 1..n :
                        /\ Window(k) \subseteq 0..(lineCount - 1)
                        /\ c.renders[k].body =
                                JoinLines([l \in 1..c.maxLinesPerScreen |->
                                                c.lines[c.renders[k].pos + l]])
                /\ \A k \in 1..(n - 1) : c.renders[k + 1].pos = c.renders[k].pos + 1
                /\ c.pc = "resolved" =>
                        /\ lineCount - 1 \in Window(n)
                        /\ \A l \in 0..(lineCount - 1) : \E k \in 1..n : l \in Window(k)

\* the nine lines of the welcome card have been shown in seven windows and
\* the display still shows the last of them
C28_WelcomeCardCovered ==
    \E i \in 1..Len(invocations) :
        /\ invocations[i].pc = "resolved"
        /\ Len(invocations[i].lines) = 9
        /\ display = invocations[i].renders[7]
        /\ display.pos = 6

\* C29: a speak call started by playTTSWithDebounce that settles leaves the
\* user's activeTTSMap entry false: at once when it settles with a failed
\* result or an exception, and when the 500 ms timer set by a successful
\* one has fired, which it eventually does
C29_FlagEventuallyFalse ==
    /\ [][\A t \in 1..Len(tts) :
            (tts[t].pc = "speaking" /\ tts'[t].pc = "done") => activeTTSMap' = Entry(FALSE)]_vars
    /\ (\E t \in 1..Len(tts) : tts[t].pc = "reset") ~> (activeTTSMap = Entry(FALSE))

\* a speak call has settled with success, the session has been cleaned up,
\* which deleted the user's entry, and the timer has then written false;
\* a later speak call is still in progress
C29_FalseAfterCleanup ==
    /\ session = "closed"
    /\ Len(tts) >= 2
    /\ tts[1].pc = "done"
    /\ tts[2].pc = "speaking"
    /\ activeTTSMap = Entry(FALSE)

\* C25: in the turn in which the quest card of 'reroll quest' renders its
\* last window the handler writes nothing after it, so the window is what
\* the display shows when its dwell time of scrollDelay * 4 begins; the
\* handler sets no timer of its own, so what it writes after the card it
\* writes in that turn
C25_LastWindowStays ==
    [][\A i \in 1..Len(invocations) :
            LET before == invocations[i]
                now == invocations'[i]
            IN  (/\ before.by # 0
                 /\ commands[before.by].kind = "reroll"
                 /\ before.pc = "sleeping"
                 /\ now.pc = "resolved")
                    => display' = now.renders[Len(now.renders)]]_vars

\* C30: the user has at most one row with status 'active'
C30_OneActiveQuest ==
    Cardinality({r \in 1..Len(activeQuests) : activeQuests[r] = "active"}) <= 1

\* C33: in the QuestApp prototype no step takes a quest back from completed,
\* a step completes at most one quest, and the user's totalPoints change
\* only in a step that completes a quest, by the reward of that quest: each
\* reward is awarded at most once, whatever commands and timers come
C33_RewardAwardedOnce ==
    [][LET newly == {q \in QuestIds : /\ questApp.completed[q] = ""
                                      /\ questApp'.completed[q] # ""}
       IN  /\ \A q \in QuestIds \ newly : questApp'.completed[q] = questApp.completed[q]
           /\ Cardinality(newly) <= 1
           /\ questApp'.user.totalPoints
                    = questApp.user.totalPoints + SumRewards(newly)]_vars

\* 'take photo' or 'mark complete' was said again before the first timer
\* fired: a quest has been completed, no quest is current, and a completion
\* timer is still pending
C33_TimerLeftAfterCompletion ==
    /\ QuestsCompleted # {}
    /\ questApp.currentQuest = NoQuest
    /\ CompletionTimers(questApp) >= 1

\* C34: once the cleanup handler has run, scrollingTextActive and
\* activeTTSMap hold no entry for the user
C34_NoEntryAfterCleanup ==
    session = "closed" =>
        /\ scrollingTextActive = Absent
        /\ activeTTSMap = Absent

\* C35: once the cleanup handler of every session opened for the user has
\* run, no distance-update interval of the user is scheduled
C35_NoIntervalAfterCleanups ==
    (\A k \in 1..Len(hudOverlay.sessions) : hudOverlay.sessions[k] = "closed")
        => hudOverlay.scheduled = {}

\* C32: a completeQuest call adds one to current_streak when the latest
\* completion was the day before or there was none, leaves it unchanged
\* when the latest completion was on the same day, and sets it to 1 after a
\* gap of two days or more; after a completion last_quest_date is the day
\* of the call and current_streak is at least 1, and current_streak is
\* never more than one above its value when the day began
C32_StreakPerDay ==
    /\ [][userStreak'.completions = userStreak.completions + 1 =>
            LET last == userStreak.last_quest_date
                today == userStreak.today
                streak == userStreak.current_streak
                gap == {today - day : day \in last}
            IN  /\ (last = {} \/ gap = {1}) => userStreak'.current_streak = streak + 1
                /\ gap = {0} => userStreak'.current_streak = streak
                /\ (\E days \in gap : days >= 2) => userStreak'.current_streak = 1
                /\ userStreak'.last_quest_date = {today}
                /\ userStreak'.current_streak >= 1]_vars
    /\ [](userStreak.current_streak <= userStreak.atMidnight + 1)

\* after completions on two days in a row, a completion after a gap has set
\* the streak back to 1
C32_StreakResetAfterGap ==
    /\ userStreak.completions >= 3
    /\ userStreak.before.current_streak >= 2
    /\ userStreak.current_streak = 1
    /\ userStreak.last_quest_date = Entry(userStreak.today)

\* C31: with 'complete quest' and 'reroll quest' handled concurrently, the
\* user's row gains points only in a step that completes a quest that was
\* active, the points of that one quest and one quest completed, so that no
\* quest is paid twice and a quest already completed or abandoned earns
\* nothing
C31_PointsOncePerActiveQuest ==
    [][user' # user =>
        /\ \E q \in 1..Len(activeQuests) :
                /\ activeQuests[q] = "active"
                /\ activeQuests' = [activeQuests EXCEPT ![q] = "completed"]
        /\ user'.total_points = user.total_points + QuestPointsFallback
        /\ user'.quests_completed = user.quests_completed + 1]_vars
====
